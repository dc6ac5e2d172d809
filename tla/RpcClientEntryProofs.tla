------------------------ MODULE RpcClientEntryProofs ------------------------
(* Proofs about RpcClientEntry, for every set of callers and functions, and *)
(* every bound on calls and message ids: the ids, the waiting items and the *)
(* results first, then what a call of a value function may return.          *)
EXTENDS RpcClientEntry, TLAPS

USE DEF Calls, MsgIds, CallOf, NoCall

-----------------------------------------------------------------------------
(* Lemmas about sequences, values and requests *)

LEMMA HeadAndTail ==
  ASSUME NEW S, NEW s \in Seq(S), s # <<>>
  PROVE  /\ Head(s) \in S /\ Tail(s) \in Seq(S)
         /\ 1 \in 1..Len(s) /\ Head(s) = s[1]
         /\ \A i \in 1..Len(Tail(s)) : i + 1 \in 1..Len(s) /\ Tail(s)[i] = s[i + 1]
OBVIOUS

LEMMA Appending ==
  ASSUME NEW S, NEW s \in Seq(S), NEW e \in S
  PROVE  /\ Append(s, e) \in Seq(S)
         /\ \A i \in 1..Len(Append(s, e)) :
              (i \in 1..Len(s) /\ Append(s, e)[i] = s[i]) \/ Append(s, e)[i] = e
OBVIOUS

LEMMA Concatenating ==
  ASSUME NEW S, NEW s \in Seq(S), NEW t \in Seq(S)
  PROVE  /\ s \o t \in Seq(S)
         /\ \A i \in 1..Len(s \o t) :
              \/ i \in 1..Len(s) /\ (s \o t)[i] = s[i]
              \/ \E j \in 1..Len(t) : (s \o t)[i] = t[j]
<1>1. s \o t \in Seq(S) /\ Len(s \o t) = Len(s) + Len(t)
  OBVIOUS
<1>2. \A i \in 1..Len(s) : (s \o t)[i] = s[i]
  OBVIOUS
<1>3. ASSUME NEW i \in 1..Len(s \o t), i \notin 1..Len(s)
      PROVE  i - Len(s) \in 1..Len(t) /\ (s \o t)[i] = t[i - Len(s)]
  BY <1>1, <1>3
<1> QED
  BY <1>1, <1>2, <1>3

LEMMA Cutting ==
  ASSUME NEW S, NEW s \in Seq(S), NEW k \in 0..1, k <= Len(s)
  PROVE  /\ SubSeq(s, 1, k) \in Seq(S)
         /\ \A i \in 1..Len(SubSeq(s, 1, k)) :
              i \in 1..Len(s) /\ SubSeq(s, 1, k)[i] = s[i]
OBVIOUS

LEMMA PlainType == \A k \in Kinds : Plain(k) \in Values
BY DEF Plain, Values

LEMMA ResultType == \A x \in Calls \cup {NoCall} : Result(x) \in Values
BY DEF Result, Values, Kinds

\* The values differ where their kinds do, and a result is one of its call.
LEMMA ValueFields ==
  /\ \A k : Plain(k).kind = k
  /\ \A x : Result(x).kind = "result" /\ Result(x).of = x
  /\ \A v \in Values : v.kind = "result" => v = Result(v.of)
  /\ \A v \in Values : v.of \in Calls \cup {NoCall}
BY DEF Plain, Result, Values

LEMMA NoTornRequest == Torn \notin Requests /\ NoBuffer \notin Requests /\ Torn # NoBuffer
BY DEF Torn, NoBuffer, NoRequest, Requests

LEMMA RequestFields ==
  \A r \in Requests : r.id \in MsgIds /\ r.fn \in Functions /\ r.of \in Calls \cup {NoCall}
BY DEF Requests

LEMMA RequestType ==
  ASSUME TypeOK, ClientInv, NEW c \in Callers, pc[c] = "fill"
  PROVE  /\ Request(c) \in Requests
         /\ Request(c).id = msgId[c]
         /\ Request(c).of = CallOf(c)
         /\ StemsFrom(msgId[c], CallOf(c))
<1>1. CallOf(c) \in Calls /\ fn[c] \in Functions /\ msgId[c] \in MsgIds
  BY DEF TypeOK, ClientInv, IdsAreKnown
<1> QED
  BY <1>1 DEF Request, Requests, StemsFrom, ClientInv, IdsAreKnown

\* A blend is a message of the calls of the threads that send, or no message.
LEMMA BlendType ==
  ASSUME TypeOK, ClientInv, NEW c \in Callers, pc[c] \in {"fill", "send"}
  PROVE  /\ Blends(c) \subseteq Requests \cup {Torn}
         /\ m_sendBuffer.of \in Calls \cup {NoCall}
<1>1. \A d \in Sending(c) \cup {c} : CallOf(d) \in Calls
  BY DEF Sending, TypeOK, ClientInv, IdsAreKnown
<1>2. m_sendBuffer.of \in Calls \cup {NoCall}
  BY RequestFields DEF TypeOK, Torn, NoBuffer, NoRequest
<1>3. {CallOf(d) : d \in Sending(c) \cup {c}} \cup {m_sendBuffer.of, NoCall} \subseteq Calls \cup {NoCall}
  BY <1>1, <1>2
<1> QED
  BY <1>2, <1>3 DEF Blends, Requests

\* What a step that blends records.
LEMMA BlendsAreKnown ==
  ASSUME NEW m \in Requests \cup {Torn}, NEW intended
  PROVE  /\ BlendedIds(m, intended) \subseteq MsgIds
         /\ m = intended \/ m = Torn \/ m.id \in BlendedIds(m, intended)
BY RequestFields DEF BlendedIds

\* What Send does to the wire: a message and perhaps some bytes follow what is
\* there, and the message is the one in the buffer unless its id is recorded.
LEMMA OnTheWire ==
  ASSUME TypeOK, ClientInv, NEW c \in Callers, Send(c)
  PROVE  \/ UNCHANGED <<requests, torn>>
         \/ \E m \in Requests \cup {Torn} :
              /\ m = m_sendBuffer \/ m = Torn \/ m.id \in torn'
              /\ m \in {m_sendBuffer} \cup Blends(c)
              /\ torn' = torn \cup BlendedIds(m, m_sendBuffer)
              /\ requests' \in Seq(Requests \cup {Torn})
              /\ \A i \in 1..Len(requests') :
                   (i \in 1..Len(requests) /\ requests'[i] = requests[i]) \/ requests'[i] \in {m, Torn}
<1>1. CASE UNCHANGED <<requests, torn>>
  BY <1>1
<1>2. CASE ~UNCHANGED <<requests, torn>>
  <2>1. PICK m \in {m_sendBuffer} \cup Blends(c), rest \in Rests(c) :
          /\ requests' = requests \o <<m>> \o rest
          /\ torn' = torn \cup BlendedIds(m, m_sendBuffer)
    BY <1>2, Zenon DEF Send
  <2>2. m \in Requests \cup {Torn}
    <3>1. m_sendBuffer \in Requests \cup {Torn} /\ Blends(c) \subseteq Requests \cup {Torn}
      BY BlendType DEF Send, TypeOK, ClientInv, MessagesStem
    <3> QED
      BY <2>1, <3>1
  <2>3. m = m_sendBuffer \/ m = Torn \/ m.id \in torn'
    BY <2>1, <2>2, BlendsAreKnown
  <2>4. rest \in {<<>>, <<Torn>>}
    BY <2>1 DEF Rests
  <2> DEFINE S == Requests \cup {Torn}
  <2>5. requests \in Seq(S)
    BY DEF TypeOK
  <2> HIDE DEF S
  <2>6. Torn \in S
    BY DEF S
  <2>7. /\ requests' \in Seq(S)
        /\ \A i \in 1..Len(requests') :
             (i \in 1..Len(requests) /\ requests'[i] = requests[i]) \/ requests'[i] \in {m, Torn}
    <3>1. m \in S
      BY <2>2 DEF S
    <3>a. <<m>> \in Seq(S) /\ \A j \in 1..Len(<<m>>) : <<m>>[j] = m
      BY <3>1
    <3>b. /\ <<Torn>> \in Seq(S) /\ \A j \in 1..Len(<<Torn>>) : <<Torn>>[j] = Torn
          /\ <<>> \in Seq(S) /\ Len(<<>>) = 0
      BY <2>6
    <3>2. /\ <<m>> \in Seq(S) /\ rest \in Seq(S)
          /\ \A j \in 1..Len(<<m>>) : <<m>>[j] = m
          /\ \A j \in 1..Len(rest) : rest[j] = Torn
      <4>1. CASE rest = <<>>
        BY <3>a, <3>b, <4>1
      <4>2. CASE rest = <<Torn>>
        BY <3>a, <3>b, <4>2, Zenon
      <4> QED
        BY <2>4, <4>1, <4>2
    <3> DEFINE first == requests \o <<m>>
    <3>3. /\ first \in Seq(S)
          /\ \A i \in 1..Len(first) : (i \in 1..Len(requests) /\ first[i] = requests[i]) \/ first[i] = m
      BY <2>5, <3>2, Concatenating
    <3> HIDE DEF first
    <3>4. /\ first \o rest \in Seq(S)
          /\ \A i \in 1..Len(first \o rest) :
               \/ i \in 1..Len(first) /\ (first \o rest)[i] = first[i]
               \/ (first \o rest)[i] = Torn
      BY <3>2, <3>3, Concatenating
    <3>5. requests' = first \o rest
      BY <2>1 DEF first
    <3> QED
      BY <3>3, <3>4, <3>5
  <2> QED
    BY <2>1, <2>2, <2>3, <2>7 DEF S
<1> QED
  BY <1>1, <1>2

\* What Fill leaves in the buffer.
LEMMA InTheBuffer ==
  ASSUME TypeOK, ClientInv, NEW c \in Callers, Fill(c)
  PROVE  \/ UNCHANGED <<pc, m_sendBuffer, torn, raced>>
         \/ pc' = [pc EXCEPT ![c] = "idle"] /\ UNCHANGED <<m_sendBuffer, torn, raced>>
         \/ \E m \in Requests \cup {Torn} :
              /\ m = Request(c) \/ m = Torn \/ m.id \in torn'
              /\ m \in {Request(c)} \cup Blends(c)
              /\ m_sendBuffer' = m
              /\ torn' = torn \cup BlendedIds(m, Request(c))
              /\ pc' = [pc EXCEPT ![c] = "send"]
              /\ raced' = IF Sending(c) = {} THEN raced
                          ELSE raced \cup {CallOf(d) : d \in Sending(c) \cup {c}}
<1>1. CASE UNCHANGED <<m_sendBuffer, torn, raced>> /\ (UNCHANGED pc \/ pc' = [pc EXCEPT ![c] = "idle"])
  BY <1>1
<1>2. CASE ~(UNCHANGED <<m_sendBuffer, torn, raced>> /\ (UNCHANGED pc \/ pc' = [pc EXCEPT ![c] = "idle"]))
  <2>1. PICK m \in {Request(c)} \cup Blends(c) :
          /\ m_sendBuffer' = m
          /\ torn' = torn \cup BlendedIds(m, Request(c))
          /\ pc' = [pc EXCEPT ![c] = "send"]
          /\ raced' = IF Sending(c) = {} THEN raced
                      ELSE raced \cup {CallOf(d) : d \in Sending(c) \cup {c}}
    BY <1>2, Zenon DEF Fill, Goto, Return, raceVars
  <2>2. m \in Requests \cup {Torn}
    BY <2>1, RequestType, BlendType DEF Fill
  <2>3. m = Request(c) \/ m = Torn \/ m.id \in torn'
    BY <2>1, <2>2, BlendsAreKnown
  <2> QED
    BY <2>1, <2>2, <2>3
<1> QED
  BY <1>1, <1>2

LEMMA AnswerType ==
  ASSUME NEW r \in Requests
  PROVE  /\ Answer(r) \in Seq(Replies)
         /\ Len(Answer(r)) \in {0, 1}
         /\ \A i \in 1..Len(Answer(r)) :
              /\ Answer(r)[i].id = r.id
              /\ Answer(r)[i].msg # Absent
              /\ Answer(r)[i].msg.kind = "result" => Answer(r)[i].msg.of = r.of
<1>1. /\ Result(r.of) \in Values /\ Plain("meta") \in Values
      /\ Result(r.of) # Absent /\ Plain("meta") # Absent
      /\ Result(r.of).of = r.of /\ Plain("meta").kind # "result"
  BY PlainType, ResultType, ValueFields, RequestFields DEF Kinds, Absent
<1>2. r.id \in MsgIds /\ r.fn \in {"value", "void", "unknown"}
  BY RequestFields, ClientAssumption
<1> HIDE DEF MsgIds
<1>3. CASE r.fn = "value"
  <2>1. Answer(r) = <<[id |-> r.id, msg |-> Result(r.of)]>>
    BY <1>3 DEF Answer
  <2> QED BY <1>1, <1>2, <2>1 DEF Replies
<1>4. CASE r.fn = "unknown"
  <2>1. Answer(r) = <<[id |-> r.id, msg |-> Plain("meta")]>>
    BY <1>4 DEF Answer
  <2> QED BY <1>1, <1>2, <2>1 DEF Replies
<1>5. CASE r.fn = "void"
  <2>1. Answer(r) = <<>>
    BY <1>5 DEF Answer
  <2> QED BY <2>1
<1> QED BY <1>2, <1>3, <1>4, <1>5

-----------------------------------------------------------------------------
(* Type correctness *)

LEMMA InitType == Init => TypeOK
<1> SUFFICES ASSUME Init PROVE TypeOK
  OBVIOUS
<1> USE DEF Init
<1>1. /\ sync \in [Callers -> BOOLEAN]
      /\ inited \in BOOLEAN /\ m_ioConnection \in BOOLEAN
      /\ garbled \in BOOLEAN /\ killed \in BOOLEAN
  BY Zenon
<1>2. ret \in [Callers -> Values] /\ m_waitingItems \in [MsgIds -> Values]
  BY PlainType DEF Kinds, Absent
<1>3. 0 \in 0..MaxMsgId /\ 0 \in 0..MaxCalls
  BY ClientAssumption
<1> QED
  BY <1>1, <1>2, <1>3 DEF TypeOK, Pcs

\* What Return and Goto do to pc and ret.
LEMMA ControlType ==
  ASSUME TypeOK, NEW c \in Callers,
         \/ \E l \in Pcs : Goto(c, l)
         \/ \E k \in Kinds : Return(c, k)
  PROVE  pc' \in [Callers -> Pcs] /\ ret' \in [Callers -> Values]
BY PlainType DEF TypeOK, Goto, Return, Pcs

LEMMA MainType == TypeOK /\ MainStep => TypeOK'
<1> SUFFICES ASSUME TypeOK, MainStep PROVE TypeOK'
  OBVIOUS
<1> USE DEF MainStep, InitEntry, Connect, BeginDisconnect, StopConnection, ReleaseConnection, Deinit
<1>1. inited' \in BOOLEAN /\ m_ioConnection' \in BOOLEAN /\ killed' \in BOOLEAN
  BY Zenon DEF TypeOK
<1>2. /\ link' \in {"none", "open", "lost", "reset", "closed"}
      /\ main' \in {"idle", "stop", "release"}
  BY DEF TypeOK
<1>3. m_waitingItems' \in [MsgIds -> Values]
  BY PlainType DEF TypeOK, Kinds, Absent
<1>4. replies' \in Seq(Replies)
  <2>1. UNCHANGED replies \/ \E k \in 0..1 : k <= Len(replies) /\ replies' = SubSeq(replies, 1, k)
    BY DEF netVars
  <2>2. replies \in Seq(Replies)
    BY DEF TypeOK
  <2> QED
    BY <2>1, <2>2, Cutting
<1>5. UNCHANGED <<callVars, idVars, requests, garbled, executed, raceVars, pc, ret, m_sendBuffer, early>>
  BY DEF netVars
<1> QED
  BY <1>1, <1>2, <1>3, <1>4, <1>5 DEF TypeOK, callVars, idVars, raceVars

LEMMA BeginType ==
  ASSUME TypeOK, NEW c \in Callers, NEW f \in Functions, NEW s \in BOOLEAN, Begin(c, f, s)
  PROVE  TypeOK'
<1>1. pc' \in [Callers -> Pcs] /\ ret' \in [Callers -> Values]
  BY ControlType DEF Begin, Pcs, Kinds
<1>2. sync' \in [Callers -> BOOLEAN]
  BY ZenonT(30) DEF TypeOK, Begin
<1>3. n' \in [Callers -> 0..MaxCalls] /\ fn' \in [Callers -> Functions \cup {"none"}]
  BY ClientAssumption DEF TypeOK, Begin
<1> QED
  BY <1>1, <1>2, <1>3 DEF TypeOK, Begin, appVars, idVars, netVars, raceVars

LEMMA IndexType ==
  ASSUME TypeOK, ClientInv, NEW c \in Callers, LoadIndex(c) \/ StoreIndex(c) \/ ReloadIndex(c)
  PROVE  TypeOK'
<1> USE DEF TypeOK, appVars, callVars, netVars, raceVars
<1>1. pc' \in [Callers -> Pcs] /\ ret' \in [Callers -> Values]
  BY ControlType DEF LoadIndex, StoreIndex, ReloadIndex, Pcs
<1>2. CASE LoadIndex(c)
  BY <1>1, <1>2 DEF LoadIndex
<1>3. CASE StoreIndex(c)
  <2>1. index' \in 0..MaxMsgId
    BY <1>3, ClientAssumption DEF StoreIndex
  <2>2. UNCHANGED <<appVars, callVars, reg, msgId, idOf, netVars, raceVars, m_sendBuffer,
                    m_waitingItems, killed, early>>
    BY <1>3 DEF StoreIndex
  <2> QED
    BY <1>1, <2>1, <2>2
<1>4. CASE ReloadIndex(c)
  <2>1. reg[c] + 1 \in 0..MaxMsgId /\ index \in 0..MaxMsgId
    BY <1>4, ClientAssumption DEF ReloadIndex, ClientInv, IdsAreKnown
  <2>2. msgId' \in [Callers -> 0..MaxMsgId] /\ idOf' \in [Calls -> 0..MaxMsgId]
    <3>1. PICK id \in 0..MaxMsgId : /\ msgId' = [msgId EXCEPT ![c] = id]
                                   /\ idOf' = [idOf EXCEPT ![CallOf(c)] = id]
      BY <1>4, <2>1 DEF ReloadIndex
    <3> QED
      BY <3>1
  <2>3. UNCHANGED <<appVars, callVars, index, reg, netVars, raceVars, m_sendBuffer,
                    m_waitingItems, killed, early>>
    BY <1>4 DEF ReloadIndex
  <2> QED
    BY <1>1, <2>2, <2>3
<1> QED
  BY <1>2, <1>3, <1>4

LEMMA SendType ==
  ASSUME TypeOK, ClientInv, NEW c \in Callers, CheckConnection(c) \/ Fill(c) \/ Send(c)
  PROVE  TypeOK'
<1>1. pc' \in [Callers -> Pcs] /\ ret' \in [Callers -> Values]
  <2>1. \/ \E l \in Pcs : Goto(c, l)
        \/ \E k \in Kinds : Return(c, k)
        \/ UNCHANGED <<pc, ret>>
    BY DEF CheckConnection, Fill, Send, Sent, Pcs, Kinds
  <2> QED
    BY <2>1, ControlType DEF TypeOK
<1>2. killed' \in BOOLEAN
  BY Zenon DEF TypeOK, CheckConnection, Fill, Send, Sent
<1>3. m_sendBuffer' \in Requests \cup {Torn, NoBuffer}
  BY InTheBuffer DEF TypeOK, CheckConnection, Send
<1>4. requests' \in Seq(Requests \cup {Torn})
  BY OnTheWire DEF TypeOK, CheckConnection, Fill, netVars
<1>6. torn' \subseteq MsgIds
  <2>1. CASE Send(c)
    BY <2>1, OnTheWire, BlendsAreKnown DEF TypeOK
  <2>2. CASE Fill(c)
    BY <2>2, InTheBuffer, BlendsAreKnown DEF TypeOK
  <2> QED
    BY <2>1, <2>2 DEF TypeOK, CheckConnection, raceVars
<1>7. raced' \subseteq Calls
  <2>1. CASE Fill(c)
    <3>1. \A d \in Sending(c) \cup {c} : CallOf(d) \in Calls
      BY <2>1 DEF Fill, Sending, TypeOK, ClientInv, IdsAreKnown
    <3>2. raced' \subseteq raced \cup {CallOf(d) : d \in Sending(c) \cup {c}}
      BY <2>1, InTheBuffer
    <3> QED
      BY <3>1, <3>2 DEF TypeOK
  <2> QED
    BY <2>1 DEF TypeOK, CheckConnection, Send, raceVars
<1>5. UNCHANGED <<appVars, callVars, idVars, replies, garbled, executed, m_waitingItems, early>>
  BY DEF CheckConnection, Fill, Send, Sent, netVars
<1> QED
  BY <1>1, <1>2, <1>3, <1>4, <1>5, <1>6, <1>7 DEF TypeOK, appVars, callVars, idVars

LEMMA WaitType ==
  ASSUME TypeOK, ClientInv, NEW c \in Callers,
         AddItem(c) \/ Wait(c) \/ WakeEarly(c) \/ Take(c) \/ RemoveItem(c)
  PROVE  TypeOK'
<1>1. pc' \in [Callers -> Pcs] /\ ret' \in [Callers -> Values]
  <2>1. CASE Take(c)
    <3>1. msgId[c] \in MsgIds
      <4>1. msgId[c] # 0
        BY <2>1 DEF Take, ClientInv, IdsAreKnown, InWait
      <4>2. msgId[c] \in 0..MaxMsgId
        BY DEF TypeOK
      <4> QED
        BY <4>1, <4>2, ClientAssumption
    <3> QED
      BY <2>1, <3>1, PlainType DEF Take, TypeOK, Pcs, InWait, Kinds
  <2>2. CASE ~Take(c)
    BY <2>2, ControlType DEF AddItem, Wait, WakeEarly, RemoveItem, Pcs, InWait, Kinds
  <2> QED
    BY <2>1, <2>2
<1>2. m_waitingItems' \in [MsgIds -> Values]
  BY PlainType DEF TypeOK, AddItem, Wait, WakeEarly, Take, RemoveItem, Kinds, Absent, Empty
<1>3. early' \subseteq Calls
  BY DEF TypeOK, AddItem, Wait, WakeEarly, Take, RemoveItem, ClientInv, IdsAreKnown
<1>4. UNCHANGED <<appVars, callVars, idVars, netVars, raceVars, m_sendBuffer, killed>>
  BY DEF AddItem, Wait, WakeEarly, Take, RemoveItem
<1> QED
  BY <1>1, <1>2, <1>3, <1>4 DEF TypeOK, appVars, callVars, idVars, netVars, raceVars

LEMMA PollingType ==
  ASSUME TypeOK, Dispatch \/ CloseEvent \/ ErrorEvent
  PROVE  TypeOK'
<1>1. CASE Dispatch
  <2>1. /\ Head(replies) \in Replies
        /\ replies' \in Seq(Replies)
    <3>1. replies \in Seq(Replies)
      BY DEF TypeOK
    <3>2. replies # <<>> /\ replies' = Tail(replies)
      BY <1>1 DEF Dispatch
    <3> QED
      BY <3>1, <3>2, HeadAndTail
  <2>2. m_waitingItems' \in [MsgIds -> Values]
    <3>1. \/ UNCHANGED m_waitingItems
          \/ m_waitingItems' = [m_waitingItems EXCEPT ![Head(replies).id] = Head(replies).msg]
      BY <1>1 DEF Dispatch
    <3> QED
      BY <2>1, <3>1 DEF TypeOK, Replies
  <2>3. pc' \in [Callers -> Pcs]
    <3>1. \/ UNCHANGED pc
          \/ \E c \in Callers : pc' = [pc EXCEPT ![c] = "woken"]
      BY <1>1 DEF Dispatch
    <3> QED
      BY <3>1 DEF TypeOK, Pcs, InWait
  <2>4. UNCHANGED <<appVars, callVars, idVars, requests, garbled, executed, raceVars, ret,
                    m_sendBuffer, killed, early>>
    BY <1>1 DEF Dispatch
  <2> QED
    BY <2>1, <2>2, <2>3, <2>4 DEF TypeOK, appVars, callVars, idVars, raceVars
<1>2. CASE CloseEvent \/ ErrorEvent
  BY <1>2 DEF CloseEvent, ErrorEvent, TypeOK, callVars, idVars, netVars, raceVars
<1> QED
  BY <1>1, <1>2

LEMMA ServiceType ==
  ASSUME TypeOK, Serve \/ PeerClose
  PROVE  TypeOK'
<1>1. CASE Serve
  <2>1. /\ Head(requests) \in Requests \cup {Torn}
        /\ requests' \in Seq(Requests \cup {Torn})
    BY <1>1 DEF Serve, TypeOK
  <2>2. garbled' \in BOOLEAN
    BY <1>1, Zenon DEF Serve, TypeOK
  <2>3. replies' \in Seq(Replies)
    <3>1. \/ UNCHANGED replies
          \/ /\ Head(requests) \in Requests
             /\ replies' = replies \o Answer(Head(requests))
      BY <1>1, <2>1 DEF Serve
    <3>2. replies \in Seq(Replies)
      BY DEF TypeOK
    <3> QED
      BY <3>1, <3>2, AnswerType, Concatenating
  <2>4. executed' \in [Calls -> 0..2]
    <3>1. \/ UNCHANGED executed
          \/ executed' = [executed EXCEPT ![Head(requests).of] = IF @ < 2 THEN @ + 1 ELSE @]
      BY <1>1 DEF Serve
    <3>2. executed \in [Calls -> 0..2]
      BY DEF TypeOK
    <3> QED
      BY <3>1, <3>2
  <2>5. UNCHANGED <<appVars, callVars, idVars, raceVars, pc, ret, m_sendBuffer, m_waitingItems,
                    killed, early>>
    BY <1>1 DEF Serve
  <2> QED
    BY <2>1, <2>2, <2>3, <2>4, <2>5 DEF TypeOK, appVars, callVars, idVars, raceVars
<1>2. CASE PeerClose
  BY <1>2 DEF PeerClose, TypeOK, callVars, idVars, raceVars
<1> QED
  BY <1>1, <1>2

LEMMA StepType == TypeOK /\ ClientInv /\ [Next]_vars => TypeOK'
<1> SUFFICES ASSUME TypeOK, ClientInv, [Next]_vars PROVE TypeOK'
  OBVIOUS
<1>1. CASE UNCHANGED vars
  BY <1>1 DEF TypeOK, vars, appVars, callVars, idVars, netVars, raceVars
<1> QED
  BY <1>1, MainType, BeginType, IndexType, SendType, WaitType, PollingType, ServiceType
     DEF Next, CallerStep, Finished

-----------------------------------------------------------------------------
(* The steps of a thread, by what they do to its position *)

\* A step moves one thread at most, and leaves the others where they are.
LEMMA OthersStay ==
  ASSUME TypeOK, NEW c \in Callers, CallerStep(c) \/ WakeEarly(c),
         NEW d \in Callers, d # c
  PROVE  /\ pc'[d] = pc[d] /\ ret'[d] = ret[d]
         /\ n' = n /\ fn' = fn /\ sync' = sync
         /\ msgId'[d] = msgId[d] /\ reg'[d] = reg[d]
<1>1. pc'[d] = pc[d] /\ ret'[d] = ret[d]
  BY DEF TypeOK, CallerStep, LoadIndex, StoreIndex, ReloadIndex, CheckConnection, Fill, Send, Sent,
         AddItem, Wait, WakeEarly, Take, RemoveItem, Goto, Return
<1>2. UNCHANGED callVars
  BY DEF CallerStep, LoadIndex, StoreIndex, ReloadIndex, CheckConnection, Fill, Send, Sent,
         AddItem, Wait, WakeEarly, Take, RemoveItem
<1>3. msgId'[d] = msgId[d] /\ reg'[d] = reg[d]
  BY DEF TypeOK, CallerStep, LoadIndex, StoreIndex, ReloadIndex, CheckConnection, Fill, Send, Sent,
         AddItem, Wait, WakeEarly, Take, RemoveItem, idVars
<1> QED
  BY <1>1, <1>2, <1>3 DEF callVars

\* The id of a call, once it has one, is its id for good.
LEMMA IdStays ==
  ASSUME TypeOK, ClientInv, [Next]_vars
  PROVE  \A x \in Calls : idOf[x] # 0 => idOf'[x] = idOf[x]
<1>1. CASE \E c \in Callers : ReloadIndex(c)
  <2>1. PICK c \in Callers : ReloadIndex(c)
    BY <1>1
  <2>2. idOf[CallOf(c)] = 0
    BY <2>1 DEF ReloadIndex, ClientInv, IdsAreKnown
  <2>3. \E id : idOf' = [idOf EXCEPT ![CallOf(c)] = id]
    BY <2>1 DEF ReloadIndex
  <2>4. idOf \in [Calls -> 0..MaxMsgId]
    BY DEF TypeOK
  <2> QED
    BY <2>2, <2>3, <2>4
<1>2. CASE ~\E c \in Callers : ReloadIndex(c)
  <2>1. idOf' = idOf
    BY <1>2 DEF Next, MainStep, InitEntry, Connect, BeginDisconnect, StopConnection,
         ReleaseConnection, Deinit, Begin, CallerStep,
                LoadIndex, StoreIndex, CheckConnection, Fill, Send, Sent, AddItem, Wait, WakeEarly,
                Take, RemoveItem, Dispatch, CloseEvent, ErrorEvent, Serve, PeerClose, Finished, vars, idVars
  <2> QED BY <2>1
<1> QED
  BY <1>1, <1>2

\* What was recorded of the races stays recorded.
LEMMA RacesStay ==
  ASSUME [Next]_vars
  PROVE  torn \subseteq torn' /\ raced \subseteq raced'
BY DEF Next, MainStep, InitEntry, Connect, BeginDisconnect, StopConnection, ReleaseConnection,
       Deinit, Begin, CallerStep, LoadIndex, StoreIndex, ReloadIndex, CheckConnection, Fill, Send,
       AddItem, Wait, WakeEarly, Take, RemoveItem, Dispatch, CloseEvent, ErrorEvent, Serve,
       PeerClose, Finished, vars, raceVars

-----------------------------------------------------------------------------
(* IdsAreKnown *)

\* What IdsAreKnown says of one thread.
IdKnown(c) ==
  /\ pc[c] = "reload" => index # 0 /\ reg[c] < MaxMsgId
  /\ pc[c] \in {"check", "fill", "send", "add"} \cup InWait =>
       n[c] # 0 /\ msgId[c] # 0 /\ idOf[CallOf(c)] = msgId[c]
  /\ pc[c] # "idle" => n[c] # 0 /\ fn[c] \in Functions
  /\ Finishing(c) /\ ret[c].kind = "result" => idOf[CallOf(c)] # 0
  /\ pc[c] \in {"load", "store", "reload"} => idOf[CallOf(c)] = 0
  /\ \A k \in 1..MaxCalls : k > n[c] => idOf[<<c, k>>] = 0

LEMMA IdsByThread ==
  /\ IdsAreKnown <=> \A c \in Callers : IdKnown(c)
  /\ IdsAreKnown' <=> \A c \in Callers : IdKnown(c)'
BY DEF IdsAreKnown, IdKnown

\* A thread of which a step changes nothing that IdKnown reads.
LEMMA IdKnownStays ==
  ASSUME NEW c \in Callers, IdKnown(c),
         pc'[c] = pc[c], n'[c] = n[c], fn'[c] = fn[c], ret'[c] = ret[c],
         msgId'[c] = msgId[c], reg'[c] = reg[c], index # 0 => index' # 0,
         \A k \in 1..MaxCalls : idOf'[<<c, k>>] = idOf[<<c, k>>],
         n[c] \in 0..MaxCalls
  PROVE  IdKnown(c)'
BY DEF IdKnown, Finishing, InWait

LEMMA IdsStep ==
  ASSUME TypeOK, ClientInv, [Next]_vars
  PROVE  IdsAreKnown'
<1>0. \A c \in Callers : IdKnown(c)
  BY IdsByThread DEF ClientInv
<1>1. ASSUME NEW c \in Callers, CallerStep(c) \/ WakeEarly(c)
      PROVE  IdsAreKnown'
  <2>1. \A d \in Callers \ {c} : IdKnown(d)'
    <3> SUFFICES ASSUME NEW d \in Callers, d # c PROVE IdKnown(d)'
      OBVIOUS
    <3>1. /\ pc'[d] = pc[d] /\ ret'[d] = ret[d]
          /\ n' = n /\ fn' = fn
          /\ msgId'[d] = msgId[d] /\ reg'[d] = reg[d]
      BY <1>1, OthersStay
    <3>2. index # 0 => index' # 0
      BY <1>1 DEF TypeOK, CallerStep, LoadIndex, StoreIndex, ReloadIndex, CheckConnection, Fill,
                  Send, Sent, AddItem, Wait, WakeEarly, Take, RemoveItem, idVars
    <3>3. \A k \in 1..MaxCalls : idOf'[<<d, k>>] = idOf[<<d, k>>]
      <4>1. UNCHANGED idOf \/ \E id : idOf' = [idOf EXCEPT ![CallOf(c)] = id]
        BY <1>1 DEF CallerStep, LoadIndex, StoreIndex, ReloadIndex, CheckConnection, Fill,
                    Send, Sent, AddItem, Wait, WakeEarly, Take, RemoveItem, idVars
      <4>2. idOf \in [Calls -> 0..MaxMsgId]
        BY DEF TypeOK
      <4> QED
        BY <4>1, <4>2
    <3>4. n[d] \in 0..MaxCalls
      BY DEF TypeOK
    <3> QED
      BY <1>0, <3>1, <3>2, <3>3, <3>4, IdKnownStays
  <2>2. IdKnown(c)'
    <3>0. IdKnown(c) /\ n' = n /\ fn' = fn
      BY <1>0, <1>1 DEF CallerStep, LoadIndex, StoreIndex, ReloadIndex, CheckConnection, Fill,
                  Send, Sent, AddItem, Wait, WakeEarly, Take, RemoveItem, callVars
    <3>1. CASE LoadIndex(c)
      BY <3>0, <3>1 DEF LoadIndex, Goto, TypeOK, IdKnown, Finishing, InWait
    <3>2. CASE StoreIndex(c)
      BY <3>0, <3>2 DEF StoreIndex, Goto, TypeOK, IdKnown, Finishing, InWait
    <3>3. CASE ReloadIndex(c)
      <4>1. PICK id \in {reg[c] + 1, index} :
              /\ msgId' = [msgId EXCEPT ![c] = id]
              /\ idOf' = [idOf EXCEPT ![CallOf(c)] = id]
        BY <3>3 DEF ReloadIndex
      <4>2. id # 0 /\ n[c] \in 1..MaxCalls /\ pc[c] = "reload"
        BY <3>0, <3>3 DEF ReloadIndex, TypeOK, IdKnown
      <4>3. /\ pc'[c] = "check" /\ msgId'[c] = id /\ idOf'[<<c, n[c]>>] = id
            /\ \A k \in 1..MaxCalls : k > n[c] => idOf'[<<c, k>>] = idOf[<<c, k>>]
        BY <3>3, <4>1, <4>2 DEF ReloadIndex, Goto, TypeOK
      <4> QED
        BY <3>0, <4>2, <4>3 DEF IdKnown, Finishing, InWait
    <3>4. CASE CheckConnection(c) \/ Fill(c) \/ Send(c) \/ AddItem(c)
      BY <3>0, <3>4, ValueFields
         DEF CheckConnection, Fill, Send, Sent, AddItem, Goto, Return, TypeOK, IdKnown, Finishing,
             InWait, idVars
    <3>5. CASE Wait(c) \/ WakeEarly(c) \/ Take(c) \/ RemoveItem(c)
      BY <3>0, <3>5 DEF Wait, WakeEarly, Take, RemoveItem, Goto, TypeOK, IdKnown, Finishing,
                        InWait, idVars
    <3> QED
      BY <1>1, <3>1, <3>2, <3>3, <3>4, <3>5 DEF CallerStep
  <2> QED
    BY <2>1, <2>2, IdsByThread
<1>2. ASSUME NEW c \in Callers, NEW f \in Functions, NEW s \in BOOLEAN, Begin(c, f, s)
      PROVE  IdsAreKnown'
  <2>a. /\ pc[c] = "idle" /\ n[c] \in 0..(MaxCalls - 1) /\ UNCHANGED idVars
        /\ n'[c] = n[c] + 1 /\ fn'[c] = f
    BY <1>2, ClientAssumption DEF Begin, TypeOK
  <2>0. /\ pc'[c] \in {"load", "idle"}
        /\ pc'[c] = "idle" => ret'[c] = Plain("failed")
    BY <1>2 DEF Begin, Goto, Return, TypeOK
  <2>1. \A d \in Callers \ {c} :
          pc'[d] = pc[d] /\ ret'[d] = ret[d] /\ n'[d] = n[d] /\ fn'[d] = fn[d]
    BY <1>2 DEF Begin, Goto, Return, TypeOK
  <2>2. \A d \in Callers \ {c} : IdKnown(d)'
    BY <1>0, <2>a, <2>1, IdKnownStays DEF TypeOK, idVars
  <2>3. IdKnown(c)'
    <3>1. \A k \in 1..MaxCalls : k > n[c] => idOf[<<c, k>>] = 0
      BY <1>0 DEF IdKnown
    <3>2. \A k \in 1..MaxCalls : k > n'[c] => idOf'[<<c, k>>] = 0
      BY <2>a, <3>1 DEF idVars
    <3>3. n'[c] \in 1..MaxCalls /\ idOf'[<<c, n'[c]>>] = 0
      BY <2>a, <3>1, ClientAssumption DEF idVars
    <3>4. pc'[c] = "idle" => ret'[c].kind # "result"
      BY <2>0, ValueFields
    <3> QED
      BY <2>a, <2>0, <3>2, <3>3, <3>4 DEF IdKnown, Finishing, InWait
  <2> QED
    BY <2>2, <2>3, IdsByThread
<1>3. CASE Dispatch
  <2>1. UNCHANGED <<callVars, idVars, ret>>
    BY <1>3 DEF Dispatch
  <2>2. \A c \in Callers : pc'[c] # pc[c] => pc[c] = "cvwait" /\ pc'[c] = "woken"
    <3>1. UNCHANGED pc \/ \E c \in {d \in Callers : pc[d] = "cvwait" /\ msgId[d] = Head(replies).id} :
                             pc' = [pc EXCEPT ![c] = "woken"]
      BY <1>3 DEF Dispatch
    <3>2. pc \in [Callers -> Pcs]
      BY DEF TypeOK
    <3> QED
      BY <3>1, <3>2
  <2>3. \A c \in Callers : IdKnown(c)'
    BY <1>0, <2>1, <2>2 DEF IdKnown, Finishing, InWait, callVars, idVars
  <2> QED
    BY <2>3, IdsByThread
<1>4. CASE UNCHANGED <<callVars, idVars, pc, ret>>
  BY <1>4 DEF ClientInv, IdsAreKnown, Finishing, InWait, callVars, idVars
<1> QED
  BY <1>1, <1>2, <1>3, <1>4
     DEF Next, MainStep, InitEntry, Connect, BeginDisconnect, StopConnection,
         ReleaseConnection, Deinit, CloseEvent, ErrorEvent, Serve, PeerClose,
         Finished, vars

-----------------------------------------------------------------------------
(* ItemsHaveOwners *)

LEMMA HolderHasId ==
  ASSUME TypeOK, IdsAreKnown, NEW c \in Callers, pc[c] \in InWait \cup {"add"}
  PROVE  msgId[c] \in MsgIds
<1>1. msgId[c] \in 0..MaxMsgId
  BY DEF TypeOK
<1>2. msgId[c] # 0
  BY DEF IdsAreKnown
<1> QED
  BY <1>1, <1>2, ClientAssumption

\* Steps after which the same threads hold the same items.
LEMMA ItemsStay ==
  ASSUME ItemsHaveOwners,
         \A c \in Callers : pc'[c] \in InWait <=> pc[c] \in InWait,
         \A c \in Callers : pc[c] \in InWait => msgId'[c] = msgId[c],
         \A i \in MsgIds : m_waitingItems'[i] = Absent <=> m_waitingItems[i] = Absent,
         TypeOK, IdsAreKnown
  PROVE  ItemsHaveOwners'
<1>1. \A c \in Callers : pc[c] \in InWait => msgId[c] \in MsgIds
  BY HolderHasId
<1> HIDE DEF MsgIds
<1>2. \A c \in Callers : pc'[c] \in InWait => m_waitingItems'[msgId'[c]] # Absent
  BY <1>1 DEF ItemsHaveOwners
<1>3. \A c, d \in Callers :
        pc'[c] \in InWait /\ pc'[d] \in InWait /\ msgId'[c] = msgId'[d] => c = d
  BY DEF ItemsHaveOwners
<1>4. \A i \in MsgIds : m_waitingItems'[i] # Absent =>
        \E c \in Callers : pc'[c] \in InWait /\ msgId'[c] = i
  BY DEF ItemsHaveOwners
<1> QED
  BY <1>2, <1>3, <1>4 DEF ItemsHaveOwners, InWait, Absent, Plain

LEMMA EmptyIsNotAbsent == Empty # Absent
BY ValueFields DEF Empty, Absent

LEMMA ItemsStep ==
  ASSUME TypeOK, ClientInv, [Next]_vars
  PROVE  ItemsHaveOwners'
<1>0. ItemsHaveOwners /\ IdsAreKnown /\ MessagesStem
  BY DEF ClientInv
<1>1. ASSUME NEW c \in Callers, CallerStep(c) \/ WakeEarly(c)
      PROVE  ItemsHaveOwners'
  <2>0. /\ \A d \in Callers \ {c} : pc'[d] = pc[d] /\ msgId'[d] = msgId[d]
        /\ pc[c] \in InWait => msgId'[c] = msgId[c]
        /\ pc[c] \in InWait \cup {"add"} => msgId[c] \in MsgIds
    <3>1. \A d \in Callers \ {c} : pc'[d] = pc[d] /\ msgId'[d] = msgId[d]
      BY <1>1, OthersStay
    <3>2. pc[c] \in InWait => msgId'[c] = msgId[c]
      BY <1>1 DEF CallerStep, LoadIndex, StoreIndex, ReloadIndex, CheckConnection, Fill, Send, Sent,
                  AddItem, Wait, WakeEarly, Take, RemoveItem, idVars, InWait
    <3>3. pc[c] \in InWait \cup {"add"} => msgId[c] \in MsgIds
      BY <1>0, HolderHasId
    <3> QED
      BY <3>1, <3>2, <3>3
  <2>1. CASE LoadIndex(c) \/ StoreIndex(c) \/ ReloadIndex(c) \/ CheckConnection(c) \/ Fill(c)
             \/ Send(c) \/ Wait(c) \/ WakeEarly(c)
    <3>1. UNCHANGED m_waitingItems
      BY <2>1 DEF LoadIndex, StoreIndex, ReloadIndex, CheckConnection, Fill, Send, Sent, Wait, WakeEarly
    <3>2. pc'[c] \in InWait <=> pc[c] \in InWait
      BY <2>1 DEF LoadIndex, StoreIndex, ReloadIndex, CheckConnection, Fill, Send, Sent, Wait,
                  WakeEarly, Goto, Return, TypeOK, InWait
    <3> QED
      BY <1>0, <2>0, <3>1, <3>2, ItemsStay
  <2>2. CASE Take(c)
    <3>1. /\ m_waitingItems' = [m_waitingItems EXCEPT ![msgId[c]] = Empty]
          /\ pc[c] \in InWait /\ pc'[c] \in InWait
      BY <2>2 DEF Take, TypeOK, InWait
    <3>2. m_waitingItems[msgId[c]] # Absent
      BY <1>0, <3>1 DEF ItemsHaveOwners
    <3>3. \A i \in MsgIds : m_waitingItems'[i] = Absent <=> m_waitingItems[i] = Absent
      BY <2>0, <3>1, <3>2, EmptyIsNotAbsent DEF TypeOK
    <3> QED
      BY <1>0, <2>0, <3>1, <3>3, ItemsStay
  <2>3. CASE AddItem(c)
    <3>1. CASE m_waitingItems[msgId[c]] = Absent
      <4>1. /\ m_waitingItems' = [m_waitingItems EXCEPT ![msgId[c]] = Empty]
            /\ pc[c] = "add" /\ pc'[c] = "wait" /\ msgId' = msgId
        BY <2>3, <3>1 DEF AddItem, Goto, TypeOK, idVars
      <4>2. \A i \in MsgIds : m_waitingItems'[i] =
              IF i = msgId[c] THEN Empty ELSE m_waitingItems[i]
        BY <4>1 DEF TypeOK
      <4>3. \A d \in Callers \ {c} : pc[d] \in InWait => msgId[d] # msgId[c]
        BY <1>0, <3>1 DEF ItemsHaveOwners
      <4>4. \A d \in Callers : pc[d] \in InWait => msgId[d] \in MsgIds
        BY <1>0, HolderHasId
      <4> QED
        BY <1>0, <2>0, <4>1, <4>2, <4>3, <4>4, EmptyIsNotAbsent DEF ItemsHaveOwners, InWait
    <3>2. CASE m_waitingItems[msgId[c]] # Absent
      <4>1. UNCHANGED m_waitingItems /\ pc[c] = "add" /\ pc'[c] = "idle"
        BY <2>3, <3>2 DEF AddItem, Return, TypeOK
      <4> QED
        BY <1>0, <2>0, <4>1, ItemsStay DEF InWait
    <3> QED
      BY <3>1, <3>2
  <2>4. CASE RemoveItem(c)
    <3>1. /\ m_waitingItems' = [m_waitingItems EXCEPT ![msgId[c]] = Absent]
          /\ pc[c] = "remove" /\ pc'[c] = "idle" /\ msgId' = msgId
      BY <2>4 DEF RemoveItem, Goto, TypeOK, idVars
    <3>2. \A i \in MsgIds : m_waitingItems'[i] =
            IF i = msgId[c] THEN Absent ELSE m_waitingItems[i]
      BY <3>1 DEF TypeOK
    <3>3. \A d \in Callers \ {c} : pc[d] \in InWait => msgId[d] # msgId[c]
      BY <1>0, <3>1 DEF ItemsHaveOwners, InWait
    <3>4. \A d \in Callers : pc[d] \in InWait => msgId[d] \in MsgIds
      BY <1>0, HolderHasId
    <3> QED
      BY <1>0, <2>0, <3>1, <3>2, <3>3, <3>4 DEF ItemsHaveOwners, InWait
  <2> QED
    BY <1>1, <2>1, <2>2, <2>3, <2>4 DEF CallerStep
<1>2. ASSUME NEW c \in Callers, NEW f \in Functions, NEW s \in BOOLEAN, Begin(c, f, s)
      PROVE  ItemsHaveOwners'
  <2>1. /\ pc[c] = "idle" /\ pc'[c] \in {"load", "idle"}
        /\ \A d \in Callers \ {c} : pc'[d] = pc[d]
    BY <1>2 DEF Begin, Goto, Return, TypeOK
  <2>2. UNCHANGED <<m_waitingItems, msgId>>
    BY <1>2 DEF Begin, idVars
  <2> QED
    BY <1>0, <2>1, <2>2, ItemsStay DEF InWait
<1>3. CASE Deinit
  <2>1. /\ \A c \in Callers : pc'[c] = "idle"
        /\ \A i \in MsgIds : m_waitingItems'[i] = Absent
    BY <1>3 DEF Deinit, Quiet
  <2> QED
    BY <2>1 DEF ItemsHaveOwners, InWait
<1>4. CASE Dispatch
  <2>1. \A c \in Callers : pc'[c] # pc[c] => pc[c] = "cvwait" /\ pc'[c] = "woken"
    <3>1. UNCHANGED pc \/ \E c \in {d \in Callers : pc[d] = "cvwait" /\ msgId[d] = Head(replies).id} :
                             pc' = [pc EXCEPT ![c] = "woken"]
      BY <1>4 DEF Dispatch
    <3>2. pc \in [Callers -> Pcs]
      BY DEF TypeOK
    <3> QED
      BY <3>1, <3>2
  <2>2. /\ Head(replies) \in Replies
        /\ Head(replies).msg # Absent
    <3>1. replies \in Seq(Replies) /\ replies # <<>>
      BY <1>4 DEF TypeOK, Dispatch
    <3> QED
      BY <1>0, <3>1, HeadAndTail DEF MessagesStem
  <2>3. \A i \in MsgIds : m_waitingItems'[i] = Absent <=> m_waitingItems[i] = Absent
    <3>1. \/ UNCHANGED m_waitingItems
          \/ /\ m_waitingItems[Head(replies).id] # Absent
             /\ m_waitingItems' = [m_waitingItems EXCEPT ![Head(replies).id] = Head(replies).msg]
      BY <1>4 DEF Dispatch
    <3>2. m_waitingItems \in [MsgIds -> Values]
      BY DEF TypeOK
    <3> QED
      BY <2>2, <3>1, <3>2
  <2>4. UNCHANGED msgId
    BY <1>4 DEF Dispatch, idVars
  <2> QED
    BY <1>0, <2>1, <2>3, <2>4, ItemsStay DEF InWait
<1>5. CASE UNCHANGED <<pc, msgId, m_waitingItems>>
  BY <1>0, <1>5 DEF ItemsHaveOwners, InWait
<1> QED
  BY <1>1, <1>2, <1>3, <1>4, <1>5
     DEF Next, MainStep, InitEntry, Connect, BeginDisconnect, StopConnection,
         ReleaseConnection, CloseEvent, ErrorEvent, Serve, PeerClose,
         Finished, vars, idVars

-----------------------------------------------------------------------------
(* MessagesStem *)

\* What stems from a call goes on doing so.
LEMMA StemsStay ==
  ASSUME TypeOK, ClientInv, [Next]_vars, NEW id \in MsgIds, NEW of, StemsFrom(id, of)
  PROVE  StemsFrom(id, of)'
<1>1. CASE id \in torn
  BY <1>1, RacesStay DEF StemsFrom
<1>2. CASE of \in Calls /\ idOf[of] = id /\ id # 0
  BY <1>2, IdStays DEF StemsFrom
<1> QED
  BY <1>1, <1>2 DEF StemsFrom

\* What MessagesStem says of a request, of a reply and of an item.
RequestStems(r) == r \in Requests => StemsFrom(r.id, r.of)
ReplyStems(r)   == r.msg # Absent /\ (r.msg.kind = "result" => StemsFrom(r.id, r.msg.of))
ItemStems(i, v) == v.kind = "result" => StemsFrom(i, v.of)

LEMMA StemsByPart ==
  ASSUME MessagesStem
  PROVE  /\ \A c \in Callers : pc[c] = "send" => m_sendBuffer # NoBuffer
         /\ RequestStems(m_sendBuffer)
         /\ \A i \in 1..Len(requests) : RequestStems(requests[i])
         /\ \A i \in 1..Len(replies) : ReplyStems(replies[i])
         /\ \A i \in MsgIds : ItemStems(i, m_waitingItems[i])
BY DEF MessagesStem, RequestStems, ReplyStems, ItemStems

LEMMA PartsStay ==
  ASSUME TypeOK, ClientInv, [Next]_vars
  PROVE  /\ \A r : RequestStems(r) => RequestStems(r)'
         /\ \A r \in Replies : ReplyStems(r) => ReplyStems(r)'
         /\ \A i \in MsgIds : \A v : ItemStems(i, v) => ItemStems(i, v)'
<1>1. \A r \in Requests : r.id \in MsgIds
  BY RequestFields
<1>2. \A id \in MsgIds : \A of : StemsFrom(id, of) => StemsFrom(id, of)'
  BY StemsStay
<1>3. ASSUME NEW r, RequestStems(r) PROVE RequestStems(r)'
  BY <1>1, <1>2, <1>3 DEF RequestStems, Requests
<1>4. ASSUME NEW r \in Replies, ReplyStems(r) PROVE ReplyStems(r)'
  BY <1>2, <1>4 DEF ReplyStems, Replies, Absent, Plain
<1>5. ASSUME NEW i \in MsgIds, NEW v, ItemStems(i, v) PROVE ItemStems(i, v)'
  BY <1>2, <1>5 DEF ItemStems
<1> QED
  BY <1>3, <1>4, <1>5

LEMMA BufferStep ==
  ASSUME TypeOK, ClientInv, [Next]_vars
  PROVE  /\ RequestStems(m_sendBuffer)'
         /\ \A c \in Callers : pc'[c] = "send" => m_sendBuffer' # NoBuffer
<1>0. MessagesStem
  BY DEF ClientInv
<1>1. CASE \E c \in Callers : Fill(c)
  <2>1. PICK c \in Callers : Fill(c)
    BY <1>1
  <2>2. /\ RequestStems(Request(c)) /\ Request(c) # NoBuffer
        /\ RequestStems(m_sendBuffer)
    BY <1>0, <2>1, StemsByPart, RequestType, NoTornRequest DEF Fill, RequestStems
  <2>3. \A r : RequestStems(r) => RequestStems(r)'
    BY PartsStay
  <2>4. CASE UNCHANGED m_sendBuffer /\ \A d \in Callers : pc'[d] = "send" => pc[d] = "send"
    BY <1>0, <2>2, <2>3, <2>4 DEF MessagesStem, RequestStems
  <2>5. ASSUME NEW m \in Requests \cup {Torn}, m_sendBuffer' = m,
               m = Request(c) \/ m = Torn \/ m.id \in torn'
        PROVE  RequestStems(m_sendBuffer)' /\ m_sendBuffer' # NoBuffer
    <3>1. RequestStems(m)'
      BY <2>2, <2>3, <2>5, NoTornRequest DEF RequestStems, StemsFrom
    <3> QED
      BY <2>5, <3>1, NoTornRequest DEF RequestStems
  <2>6. CASE UNCHANGED <<pc, m_sendBuffer>>
    BY <2>4, <2>6
  <2>7. CASE pc' = [pc EXCEPT ![c] = "idle"] /\ UNCHANGED m_sendBuffer
    BY <2>4, <2>7 DEF TypeOK
  <2>8. CASE \E m \in Requests \cup {Torn} :
               /\ m = Request(c) \/ m = Torn \/ m.id \in torn'
               /\ m_sendBuffer' = m
    BY <2>5, <2>8
  <2> QED
    BY <2>1, <2>6, <2>7, <2>8, InTheBuffer
<1>2. CASE ~\E c \in Callers : Fill(c)
  <2>1. UNCHANGED m_sendBuffer
    BY <1>2 DEF Next, MainStep, InitEntry, Connect, BeginDisconnect, StopConnection,
         ReleaseConnection, Deinit, Begin, CallerStep,
                LoadIndex, StoreIndex, ReloadIndex, CheckConnection, Send, Sent, AddItem, Wait,
                WakeEarly, Take, RemoveItem, Dispatch, CloseEvent, ErrorEvent, Serve, PeerClose, Finished, vars
  <2>2. \A c \in Callers : pc'[c] = "send" => pc[c] = "send"
    <3>0. pc \in [Callers -> Pcs]
      BY DEF TypeOK
    <3>1. ASSUME NEW c \in Callers, CallerStep(c) \/ WakeEarly(c), pc'[c] = "send"
          PROVE  pc[c] = "send"
      BY <1>2, <3>0, <3>1 DEF CallerStep, LoadIndex, StoreIndex, ReloadIndex, CheckConnection,
            Send, Sent, AddItem, Wait, WakeEarly, Take, RemoveItem, Goto, Return
    <3>2. ASSUME NEW c \in Callers, NEW f \in Functions, NEW s \in BOOLEAN, Begin(c, f, s)
          PROVE  \A d \in Callers : pc'[d] = "send" => pc[d] = "send"
      BY <3>0, <3>2 DEF Begin, Goto, Return
    <3>3. UNCHANGED pc
          \/ (\E c \in Callers : pc' = [pc EXCEPT ![c] = "woken"])
          \/ (\E c \in Callers : CallerStep(c) \/ WakeEarly(c))
          \/ (\E c \in Callers, f \in Functions, s \in BOOLEAN : Begin(c, f, s))
      BY DEF Next, MainStep, InitEntry, Connect, BeginDisconnect, StopConnection,
         ReleaseConnection, Deinit, Dispatch, CloseEvent, ErrorEvent,
             Serve, PeerClose, Finished, vars
    <3> QED
      BY <3>0, <3>1, <3>2, <3>3, OthersStay
  <2>3. RequestStems(m_sendBuffer)
    BY <1>0, StemsByPart
  <2>4. RequestStems(m_sendBuffer)'
    BY <2>1, <2>3, PartsStay DEF RequestStems
  <2> QED
    BY <1>0, <2>1, <2>2, <2>4 DEF MessagesStem
<1> QED
  BY <1>1, <1>2

LEMMA NetStep ==
  ASSUME TypeOK, ClientInv, [Next]_vars
  PROVE  /\ \A i \in 1..Len(requests') : RequestStems(requests[i])'
         /\ \A i \in 1..Len(replies') : ReplyStems(replies[i])'
<1>0. /\ \A c \in Callers : pc[c] = "send" => m_sendBuffer # NoBuffer
      /\ RequestStems(m_sendBuffer)
      /\ \A i \in 1..Len(requests) : RequestStems(requests[i])
      /\ \A i \in 1..Len(replies) : ReplyStems(replies[i])
  BY StemsByPart DEF ClientInv
<1>a. /\ requests \in Seq(Requests \cup {Torn})
      /\ replies \in Seq(Replies)
      /\ m_sendBuffer \in Requests \cup {Torn, NoBuffer}
  BY DEF TypeOK
<1>b. /\ \A r : RequestStems(r) => RequestStems(r)'
      /\ \A r \in Replies : ReplyStems(r) => ReplyStems(r)'
  BY PartsStay
<1>1. ASSUME NEW i \in 1..Len(requests'), NEW r, r = requests'[i] PROVE RequestStems(r)'
  <2>1. \/ UNCHANGED requests
        \/ requests' = <<>>
        \/ requests # <<>> /\ requests' = Tail(requests)
        \/ \E c \in Callers : Send(c)
    BY DEF Next, MainStep, InitEntry, Connect, BeginDisconnect, StopConnection,
         ReleaseConnection, Deinit, Begin, CallerStep,
           LoadIndex, StoreIndex, ReloadIndex, CheckConnection, Fill, Send, Sent, AddItem, Wait,
           WakeEarly, Take, RemoveItem, Dispatch, CloseEvent, ErrorEvent, Serve, PeerClose, Finished, vars,
           netVars
  <2>2. CASE UNCHANGED requests \/ requests' = <<>>
    BY <1>0, <1>1, <1>b, <2>2
  <2>3. CASE requests # <<>> /\ requests' = Tail(requests)
    BY <1>0, <1>1, <1>a, <1>b, <2>3, HeadAndTail
  <2>4. CASE \E c \in Callers : Send(c)
    <3>1. PICK c \in Callers : Send(c)
      BY <2>4
    <3>2. CASE UNCHANGED requests
      BY <1>0, <1>1, <1>b, <3>2
    <3>3. ASSUME NEW m, m = m_sendBuffer \/ m = Torn \/ m.id \in torn'
          PROVE  RequestStems(m)' /\ RequestStems(Torn)'
      BY <1>0, <1>b, <3>3, NoTornRequest DEF RequestStems, StemsFrom
    <3>4. CASE \E m \in Requests \cup {Torn} :
                 /\ m = m_sendBuffer \/ m = Torn \/ m.id \in torn'
                 /\ \A k \in 1..Len(requests') :
                      (k \in 1..Len(requests) /\ requests'[k] = requests[k]) \/ requests'[k] \in {m, Torn}
      BY <1>0, <1>1, <1>b, <3>3, <3>4
    <3> QED
      BY <3>1, <3>2, <3>4, OnTheWire
  <2> QED
    BY <2>1, <2>2, <2>3, <2>4
<1>2. \A i \in 1..Len(replies') : replies'[i] \in Replies /\ ReplyStems(replies'[i])
  <2>1. \/ UNCHANGED replies
        \/ replies # <<>> /\ replies' = Tail(replies)
        \/ \E k \in 0..1 : k <= Len(replies) /\ replies' = SubSeq(replies, 1, k)
        \/ /\ requests # <<>> /\ Head(requests) # Torn
           /\ replies' = replies \o Answer(Head(requests))
    BY DEF Next, MainStep, InitEntry, Connect, BeginDisconnect, StopConnection,
         ReleaseConnection, Deinit, Begin, CallerStep,
           LoadIndex, StoreIndex, ReloadIndex, CheckConnection, Fill, Send, Sent, AddItem, Wait,
           WakeEarly, Take, RemoveItem, Dispatch, CloseEvent, ErrorEvent, Serve, PeerClose, Finished, vars,
           netVars
  <2>2. CASE UNCHANGED replies
    BY <1>0, <1>a, <2>2
  <2>3. CASE replies # <<>> /\ replies' = Tail(replies)
    BY <1>0, <1>a, <2>3, HeadAndTail
  <2>5. CASE \E k \in 0..1 : k <= Len(replies) /\ replies' = SubSeq(replies, 1, k)
    <3>1. PICK k \in 0..1 : k <= Len(replies) /\ replies' = SubSeq(replies, 1, k)
      BY <2>5
    <3> QED
      BY <1>0, <1>a, <3>1, Cutting
  <2>4. CASE /\ requests # <<>> /\ Head(requests) # Torn
             /\ replies' = replies \o Answer(Head(requests))
    <3>1. Head(requests) \in Requests /\ StemsFrom(Head(requests).id, Head(requests).of)
      BY <1>0, <1>a, <2>4, HeadAndTail DEF RequestStems
    <3> DEFINE answer == Answer(Head(requests))
    <3>2. /\ answer \in Seq(Replies)
          /\ \A j \in 1..Len(answer) : ReplyStems(answer[j])
      BY <3>1, AnswerType DEF ReplyStems
    <3>3. replies' = replies \o answer
      BY <2>4
    <3> HIDE DEF answer
    <3>4. \A j \in 1..Len(answer) : answer[j] \in Replies
      BY <3>2
    <3> QED
      BY <1>0, <1>a, <3>2, <3>3, <3>4, Concatenating
  <2> QED
    BY <2>1, <2>2, <2>3, <2>4, <2>5
<1> QED
  BY <1>1, <1>2, <1>b DEF RequestStems, ReplyStems

LEMMA ItemStep ==
  ASSUME TypeOK, ClientInv, [Next]_vars
  PROVE  \A i \in MsgIds : ItemStems(i, m_waitingItems[i])'
<1>0. /\ \A i \in 1..Len(replies) : ReplyStems(replies[i])
      /\ \A i \in MsgIds : ItemStems(i, m_waitingItems[i])
  BY StemsByPart DEF ClientInv
<1>a. /\ replies \in Seq(Replies)
      /\ m_waitingItems \in [MsgIds -> Values]
  BY DEF TypeOK
<1>1. \A i \in MsgIds : ItemStems(i, m_waitingItems'[i])
  <2>1. \/ UNCHANGED m_waitingItems
        \/ m_waitingItems' = [i \in MsgIds |-> Absent]
        \/ \E c \in Callers : \/ m_waitingItems' = [m_waitingItems EXCEPT ![msgId[c]] = Empty]
                              \/ m_waitingItems' = [m_waitingItems EXCEPT ![msgId[c]] = Absent]
        \/ /\ replies # <<>>
           /\ m_waitingItems' = [m_waitingItems EXCEPT ![Head(replies).id] = Head(replies).msg]
    BY DEF Next, MainStep, InitEntry, Connect, BeginDisconnect, StopConnection,
         ReleaseConnection, Deinit, Begin, CallerStep,
           LoadIndex, StoreIndex, ReloadIndex, CheckConnection, Fill, Send, Sent, AddItem, Wait,
           WakeEarly, Take, RemoveItem, Dispatch, CloseEvent, ErrorEvent, Serve, PeerClose, Finished, vars
  <2>2. \A i \in MsgIds : ItemStems(i, Absent) /\ ItemStems(i, Empty)
    BY ValueFields DEF ItemStems, Absent, Empty
  <2>3. CASE /\ replies # <<>>
             /\ m_waitingItems' = [m_waitingItems EXCEPT ![Head(replies).id] = Head(replies).msg]
    BY <1>0, <1>a, <2>3, HeadAndTail DEF ReplyStems, ItemStems
  <2>4. CASE ~(replies # <<>>
               /\ m_waitingItems' = [m_waitingItems EXCEPT ![Head(replies).id] = Head(replies).msg])
    BY <1>0, <1>a, <2>1, <2>2, <2>4
  <2> QED
    BY <2>3, <2>4
<1> QED
  BY <1>1, PartsStay DEF ItemStems

LEMMA MessagesStep ==
  ASSUME TypeOK, ClientInv, [Next]_vars
  PROVE  MessagesStem'
BY BufferStep, NetStep, ItemStep DEF MessagesStem, RequestStems, ReplyStems, ItemStems

-----------------------------------------------------------------------------
(* ResultIsOwn *)

\* What ResultIsOwn says of one thread.
OwnResult(c) ==
  Finishing(c) /\ ret[c].kind = "result" =>
    ret[c] = Result(CallOf(c)) \/ Collided(CallOf(c))

LEMMA ResultsByThread ==
  /\ ResultIsOwn <=> \A c \in Callers : OwnResult(c)
  /\ ResultIsOwn' <=> \A c \in Callers : OwnResult(c)'
BY DEF ResultIsOwn, OwnResult

LEMMA CollidedStays ==
  ASSUME TypeOK, ClientInv, [Next]_vars, NEW x \in Calls, idOf[x] # 0, Collided(x)
  PROVE  Collided(x)'
BY IdStays, RacesStay DEF Collided

\* A thread that stays where it is keeps its own result.
LEMMA OwnResultStays ==
  ASSUME TypeOK, ClientInv, [Next]_vars, NEW c \in Callers,
         n'[c] = n[c], ret'[c] = ret[c], Finishing(c)' => Finishing(c)
  PROVE  OwnResult(c)'
<1> SUFFICES ASSUME Finishing(c)', ret'[c].kind = "result"
             PROVE  (ret[c] = Result(CallOf(c)) \/ Collided(CallOf(c)))'
  BY DEF OwnResult
<1>1. /\ Finishing(c) /\ ret[c].kind = "result"
      /\ OwnResult(c)
  BY ResultsByThread DEF ClientInv
<1>2. idOf[CallOf(c)] # 0 /\ CallOf(c) \in Calls
  BY <1>1 DEF ClientInv, IdsAreKnown, Finishing, TypeOK
<1>3. CASE ret[c] = Result(CallOf(c))
  BY <1>3 DEF Result
<1>4. CASE Collided(CallOf(c))
  BY <1>2, <1>4, CollidedStays DEF Collided
<1> QED
  BY <1>1, <1>3, <1>4 DEF OwnResult

LEMMA TakeIsOwn ==
  ASSUME TypeOK, ClientInv, NEW c \in Callers, Take(c)
  PROVE  OwnResult(c)'
<1> DEFINE item == m_waitingItems[msgId[c]]
<1>1. /\ msgId[c] \in MsgIds /\ idOf[CallOf(c)] = msgId[c]
  BY HolderHasId DEF Take, ClientInv, IdsAreKnown, InWait
<1>2. /\ item \in Values
      /\ ItemStems(msgId[c], item)
  BY <1>1, StemsByPart DEF TypeOK, ClientInv
<1>3. /\ ret'[c] = IF item.kind = "result" THEN item ELSE Plain("default")
      /\ UNCHANGED <<n, idOf, torn>>
  BY DEF Take, TypeOK, callVars, idVars, raceVars
<1> SUFFICES ASSUME item.kind = "result"
             PROVE  item = Result(CallOf(c)) \/ Collided(CallOf(c))
  BY <1>3, ValueFields DEF OwnResult, Collided, Result
<1>4. \/ msgId[c] \in torn
      \/ item = Result(item.of) /\ item.of \in Calls /\ idOf[item.of] = msgId[c]
  BY <1>2, ValueFields DEF ItemStems, StemsFrom
<1> QED
  BY <1>1, <1>4 DEF Collided

LEMMA ResultStep ==
  ASSUME TypeOK, ClientInv, [Next]_vars
  PROVE  ResultIsOwn'
<1>1. ASSUME NEW c \in Callers, CallerStep(c) \/ WakeEarly(c)
      PROVE  ResultIsOwn'
  <2>1. \A d \in Callers \ {c} : OwnResult(d)'
    BY <1>1, OthersStay, OwnResultStays DEF Finishing
  <2>2. CASE Take(c)
    BY <2>1, <2>2, TakeIsOwn, ResultsByThread
  <2>3. CASE ~Take(c)
    <3>1. \/ n'[c] = n[c] /\ ret'[c] = ret[c] /\ (Finishing(c)' => Finishing(c))
          \/ ret'[c] \in {Plain("failed"), Plain("sent")}
      BY <1>1, <2>3 DEF CallerStep, LoadIndex, StoreIndex, ReloadIndex, CheckConnection, Fill,
            Send, Sent, AddItem, Wait, WakeEarly, RemoveItem, Goto, Return, callVars, Finishing, TypeOK
    <3>2. OwnResult(c)'
      BY <3>1, OwnResultStays, ValueFields DEF OwnResult
    <3> QED
      BY <2>1, <3>2, ResultsByThread
  <2> QED
    BY <2>2, <2>3
<1>2. ASSUME NEW c \in Callers, NEW f \in Functions, NEW s \in BOOLEAN, Begin(c, f, s)
      PROVE  ResultIsOwn'
  <2>1. \A d \in Callers \ {c} : pc'[d] = pc[d] /\ ret'[d] = ret[d] /\ n'[d] = n[d]
    BY <1>2 DEF Begin, Goto, Return, TypeOK
  <2>2. \A d \in Callers \ {c} : OwnResult(d)'
    BY <2>1, OwnResultStays DEF Finishing
  <2>3. pc'[c] = "load" \/ ret'[c] = Plain("failed")
    BY <1>2 DEF Begin, Goto, Return, TypeOK
  <2>4. OwnResult(c)'
    BY <2>3, ValueFields DEF OwnResult, Finishing
  <2> QED
    BY <2>2, <2>4, ResultsByThread
<1>3. CASE Dispatch
  <2>1. UNCHANGED <<callVars, ret>>
    BY <1>3 DEF Dispatch
  <2>2. \A c \in Callers : Finishing(c)' => Finishing(c)
    <3>1. UNCHANGED pc \/ \E c \in Callers : pc' = [pc EXCEPT ![c] = "woken"]
      BY <1>3 DEF Dispatch
    <3> QED
      BY <2>1, <3>1 DEF Finishing, TypeOK, callVars
  <2> QED
    BY <2>1, <2>2, OwnResultStays, ResultsByThread DEF callVars
<1>4. CASE UNCHANGED <<callVars, idVars, pc, ret>>
  BY <1>4, OwnResultStays, ResultsByThread DEF Finishing, callVars
<1> QED
  BY <1>1, <1>2, <1>3, <1>4
     DEF Next, MainStep, InitEntry, Connect, BeginDisconnect, StopConnection,
         ReleaseConnection, Deinit, CloseEvent, ErrorEvent, Serve, PeerClose,
         Finished, vars

-----------------------------------------------------------------------------
(* The invariant, and what follows from it *)

LEMMA InitClientInv == Init => ClientInv
<1> SUFFICES ASSUME Init PROVE ClientInv
  OBVIOUS
<1>1. ItemsHaveOwners
  BY DEF Init, ItemsHaveOwners, InWait
<1>2. IdsAreKnown
  BY ValueFields DEF Init, IdsAreKnown, Finishing, InWait
<1>3. MessagesStem
  BY NoTornRequest, ValueFields DEF Init, MessagesStem, Absent
<1>4. ResultIsOwn
  BY DEF Init, ResultIsOwn, Finishing
<1> QED
  BY <1>1, <1>2, <1>3, <1>4 DEF ClientInv

THEOREM ClientInvariant == Spec => [](TypeOK /\ ClientInv)
<1>1. Init => TypeOK /\ ClientInv
  BY InitType, InitClientInv
<1>2. TypeOK /\ ClientInv /\ [Next]_vars => (TypeOK /\ ClientInv)'
  BY StepType, ItemsStep, IdsStep, MessagesStep, ResultStep DEF ClientInv
<1> QED
  BY <1>1, <1>2, PTL DEF Spec

\* Type correctness of the client.
THEOREM ClientTypeCorrect == Spec => []TypeOK
BY ClientInvariant, PTL

\* Waiting items and the calls that wait match one to one, whatever ids the
\* unprotected index of _getMessageId gave out.
THEOREM ItemsMatchWaiters == Spec => []ItemsHaveOwners
<1>1. ClientInv => ItemsHaveOwners
  BY DEF ClientInv
<1> QED
  BY <1>1, ClientInvariant, PTL

\* Whoever gets a result gets that of his own call, unless his id was given to
\* another call, or to a message that two threads blended in m_sendBuffer.
THEOREM ResultsAreOwn == Spec => []ResultIsOwn
<1>1. ClientInv => ResultIsOwn
  BY DEF ClientInv
<1> QED
  BY <1>1, ClientInvariant, PTL

-----------------------------------------------------------------------------
(* What a step does to a thread's call *)

\* A step that begins no call leaves the calls, and the functions they name.
LEMMA CallsStay ==
  ASSUME [Next]_vars,
         ~\E c \in Callers, f \in Functions, s \in BOOLEAN : Begin(c, f, s)
  PROVE  UNCHANGED <<n, fn>>
BY DEF Next, MainStep, InitEntry, Connect, BeginDisconnect, StopConnection,
         ReleaseConnection, Deinit, CallerStep, LoadIndex, StoreIndex,
       ReloadIndex, CheckConnection, Fill, Send, Sent, AddItem, Wait, WakeEarly, Take, RemoveItem,
       Dispatch, CloseEvent, ErrorEvent, Serve, PeerClose, Finished, vars, callVars

\* What Begin does: the call is a new one, and no thread is moved but this.
LEMMA BeginsNewCall ==
  ASSUME TypeOK, ClientInv, NEW c \in Callers, NEW f \in Functions, NEW s \in BOOLEAN,
         Begin(c, f, s)
  PROVE  /\ n'[c] = n[c] + 1 /\ n'[c] \in 1..MaxCalls /\ n[c] \in Nat
         /\ idOf[<<c, n'[c]>>] = 0
         /\ \A d \in Callers \ {c} : n'[d] = n[d] /\ fn'[d] = fn[d] /\ pc'[d] = pc[d] /\ ret'[d] = ret[d]
         /\ UNCHANGED <<idOf, msgId, m_sendBuffer, requests, replies, m_waitingItems, early>>
         /\ pc'[c] = "load" \/ (pc'[c] = "idle" /\ ret'[c] = Plain("failed"))
<1>1. /\ n \in [Callers -> 0..MaxCalls] /\ fn \in [Callers -> Functions \cup {"none"}]
      /\ pc \in [Callers -> Pcs] /\ ret \in [Callers -> Values] /\ MaxCalls \in Nat
  BY ClientAssumption DEF TypeOK
<1>2. /\ n' = [n EXCEPT ![c] = @ + 1] /\ n[c] < MaxCalls
      /\ fn' = [fn EXCEPT ![c] = f]
      /\ UNCHANGED <<idOf, msgId, m_sendBuffer, requests, replies, m_waitingItems, early>>
  BY DEF Begin, idVars, netVars
<1>3. \A k \in 1..MaxCalls : k > n[c] => idOf[<<c, k>>] = 0
  BY DEF ClientInv, IdsAreKnown
<1>4. \/ pc' = [pc EXCEPT ![c] = "load"] /\ UNCHANGED ret
      \/ pc' = [pc EXCEPT ![c] = "idle"] /\ ret' = [ret EXCEPT ![c] = Plain("failed")]
  BY DEF Begin, Goto, Return
<1>5. n'[c] = n[c] + 1 /\ n'[c] \in 1..MaxCalls /\ n[c] \in Nat
  BY <1>1, <1>2
<1> QED
  BY <1>1, <1>2, <1>3, <1>4, <1>5

-----------------------------------------------------------------------------
(* RightFn *)

\* What names the function of its call goes on doing so.
LEMMA RightFnStays ==
  ASSUME TypeOK, ClientInv, [Next]_vars, NEW r, RightFn(r), RequestStems(r)
  PROVE  RightFn(r)'
<1> SUFFICES ASSUME r \in Requests, r.id \notin torn', NEW d \in Callers, r.of = CallOf(d)'
             PROVE  r.fn = fn'[d]
  BY DEF RightFn
<1>0. r.id \notin torn
  BY RacesStay
<1>1. idOf[r.of] # 0 /\ r.of \in Calls
  BY <1>0, RequestFields DEF RequestStems, StemsFrom
<1>2. CASE \E c \in Callers, f \in Functions, s \in BOOLEAN : Begin(c, f, s)
  <2>1. PICK c \in Callers, f \in Functions, s \in BOOLEAN : Begin(c, f, s)
    BY <1>2
  <2>2. /\ idOf[<<c, n'[c]>>] = 0
        /\ \A e \in Callers \ {c} : n'[e] = n[e] /\ fn'[e] = fn[e]
    BY <2>1, BeginsNewCall
  <2> QED
    BY <1>0, <1>1, <2>2 DEF RightFn
<1>3. CASE ~\E c \in Callers, f \in Functions, s \in BOOLEAN : Begin(c, f, s)
  BY <1>0, <1>3, CallsStay DEF RightFn
<1> QED
  BY <1>2, <1>3

LEMMA RightFnStep ==
  ASSUME TypeOK, ClientInv, ValueInv, [Next]_vars
  PROVE  /\ RightFn(m_sendBuffer)'
         /\ \A i \in 1..Len(requests') : RightFn(requests[i])'
<1>0. /\ RightFn(m_sendBuffer) /\ RequestStems(m_sendBuffer)
      /\ \A i \in 1..Len(requests) : RightFn(requests[i]) /\ RequestStems(requests[i])
  BY StemsByPart DEF ValueInv, ClientInv
<1>a. /\ requests \in Seq(Requests \cup {Torn})
      /\ m_sendBuffer \in Requests \cup {Torn, NoBuffer}
  BY DEF TypeOK
<1>b. \A r : RightFn(r) /\ RequestStems(r) => RightFn(r)'
  BY RightFnStays
<1>1. RightFn(m_sendBuffer)'
  <2>1. \/ UNCHANGED m_sendBuffer
        \/ \E c \in Callers : Fill(c)
    BY DEF Next, MainStep, InitEntry, Connect, BeginDisconnect, StopConnection,
           ReleaseConnection, Deinit, Begin, CallerStep, LoadIndex, StoreIndex, ReloadIndex,
           CheckConnection, Send, AddItem, Wait, WakeEarly, Take, RemoveItem, Dispatch, CloseEvent, ErrorEvent,
           ErrorEvent, Serve, PeerClose, Finished, vars
  <2>2. CASE UNCHANGED m_sendBuffer
    BY <1>0, <1>b, <2>2 DEF RightFn
  <2>3. ASSUME NEW c \in Callers, Fill(c), NEW m, m_sendBuffer' = m,
               m = Request(c) \/ m = Torn \/ m.id \in torn'
        PROVE  RightFn(m_sendBuffer)'
    <3>1. UNCHANGED <<n, fn>>
      BY <2>3 DEF Fill, callVars
    <3> QED
      BY <2>3, <3>1, NoTornRequest DEF RightFn, Request
  <2> QED
    BY <2>1, <2>2, <2>3, InTheBuffer
<1>2. \A i \in 1..Len(requests') : RightFn(requests[i])'
  <2>1. \/ UNCHANGED requests
        \/ requests' = <<>>
        \/ requests # <<>> /\ requests' = Tail(requests)
        \/ \E c \in Callers : Send(c)
    BY DEF Next, MainStep, InitEntry, Connect, BeginDisconnect, StopConnection,
         ReleaseConnection, Deinit, Begin, CallerStep,
           LoadIndex, StoreIndex, ReloadIndex, CheckConnection, Fill, Send, Sent, AddItem, Wait,
           WakeEarly, Take, RemoveItem, Dispatch, CloseEvent, ErrorEvent, Serve, PeerClose, Finished, vars,
           netVars
  <2> SUFFICES ASSUME NEW i \in 1..Len(requests'), NEW r, r = requests'[i] PROVE RightFn(r)'
    BY DEF RightFn
  <2>2. CASE UNCHANGED requests \/ requests' = <<>>
    BY <1>0, <1>b, <2>2
  <2>3. CASE requests # <<>> /\ requests' = Tail(requests)
    BY <1>0, <1>a, <1>b, <2>3, HeadAndTail
  <2>4. CASE \E c \in Callers : Send(c)
    <3>1. PICK c \in Callers : Send(c)
      BY <2>4
    <3>2. CASE UNCHANGED requests
      BY <1>0, <1>b, <3>2
    <3>3. ASSUME NEW m, m = m_sendBuffer \/ m = Torn \/ m.id \in torn'
          PROVE  RightFn(m)' /\ RightFn(Torn)'
      BY <1>0, <1>b, <3>3, NoTornRequest DEF RightFn
    <3>4. CASE \E m \in Requests \cup {Torn} :
                 /\ m = m_sendBuffer \/ m = Torn \/ m.id \in torn'
                 /\ \A k \in 1..Len(requests') :
                      (k \in 1..Len(requests) /\ requests'[k] = requests[k]) \/ requests'[k] \in {m, Torn}
      BY <1>0, <1>b, <3>3, <3>4
    <3> QED
      BY <3>1, <3>2, <3>4, OnTheWire
  <2> QED
    BY <2>1, <2>2, <2>3, <2>4
<1> QED
  BY <1>1, <1>2

-----------------------------------------------------------------------------
(* RightKind *)

LEMMA RightKindStays ==
  ASSUME TypeOK, ClientInv, [Next]_vars, NEW r \in Replies, RightKind(r)
  PROVE  RightKind(r)'
<1>a. CASE r.id \in torn
  BY <1>a, RacesStay DEF RightKind, Collided
<1> SUFFICES ASSUME r.id \notin torn PROVE RightKind(r)'
  BY <1>a
<1>1. PICK y \in Calls : idOf[y] = r.id
  BY DEF RightKind
<1>2. r.id # 0 /\ idOf'[y] = r.id
  BY <1>1, IdStays DEF Replies
<1> SUFFICES ASSUME NEW c \in Callers, n'[c] # 0, r.id = idOf'[CallOf(c)'], fn'[c] = "value"
             PROVE  r.msg.kind = "result" \/ Collided(CallOf(c))'
  BY <1>2 DEF RightKind
<1>3. CASE \E d \in Callers, f \in Functions, s \in BOOLEAN : Begin(d, f, s)
  <2>1. PICK d \in Callers, f \in Functions, s \in BOOLEAN : Begin(d, f, s)
    BY <1>3
  <2>2. /\ idOf[<<d, n'[d]>>] = 0 /\ UNCHANGED idOf
        /\ \A e \in Callers \ {d} : n'[e] = n[e] /\ fn'[e] = fn[e]
    BY <2>1, BeginsNewCall
  <2>3. c # d /\ n'[c] = n[c] /\ fn'[c] = fn[c]
    BY <1>2, <2>2
  <2> QED
    BY <2>2, <2>3 DEF RightKind, Collided
<1>4. CASE ~\E d \in Callers, f \in Functions, s \in BOOLEAN : Begin(d, f, s)
  <2>1. UNCHANGED <<n, fn>>
    BY <1>4, CallsStay
  <2>2. n[c] # 0 /\ CallOf(c) \in Calls
    BY <2>1 DEF TypeOK
  <2>3. CASE idOf[CallOf(c)] = r.id
    BY <1>2, <2>1, <2>2, <2>3, CollidedStays DEF RightKind, Collided
  <2>4. CASE idOf[CallOf(c)] # r.id
    BY <1>1, <1>2, <2>1, <2>2, <2>4 DEF Collided
  <2> QED
    BY <2>3, <2>4
<1> QED
  BY <1>3, <1>4

\* The answer to a request that names the function of its call.
LEMMA AnswerIsRight ==
  ASSUME TypeOK, NEW q \in Requests, RightFn(q), RequestStems(q),
         NEW j \in 1..Len(Answer(q))
  PROVE  RightKind(Answer(q)[j])
<1>2. Answer(q)[j].id = q.id
  BY AnswerType
<1>a. CASE q.id \in torn
  BY <1>2, <1>a DEF RightKind, Collided
<1> SUFFICES ASSUME q.id \notin torn PROVE RightKind(Answer(q)[j])
  BY <1>a
<1>1. q.of \in Calls /\ idOf[q.of] = q.id
  BY DEF RequestStems, StemsFrom
<1>3. q.fn = "value" => Answer(q)[j].msg.kind = "result"
  BY DEF Answer, Result
<1> SUFFICES ASSUME NEW c \in Callers, n[c] # 0, q.id = idOf[CallOf(c)], fn[c] = "value"
             PROVE  Answer(q)[j].msg.kind = "result" \/ Collided(CallOf(c))
  BY <1>1, <1>2 DEF RightKind
<1>4. CASE q.of = CallOf(c)
  BY <1>3, <1>4 DEF RightFn
<1>5. CASE q.of # CallOf(c)
  BY <1>1, <1>5 DEF Collided
<1> QED
  BY <1>4, <1>5

LEMMA RightKindStep ==
  ASSUME TypeOK, ClientInv, ValueInv, [Next]_vars
  PROVE  \A i \in 1..Len(replies') : RightKind(replies[i])'
<1>0. /\ \A i \in 1..Len(replies) : RightKind(replies[i])
      /\ \A i \in 1..Len(requests) : RightFn(requests[i]) /\ RequestStems(requests[i])
  BY StemsByPart DEF ValueInv, ClientInv
<1>a. /\ replies \in Seq(Replies)
      /\ requests \in Seq(Requests \cup {Torn})
  BY DEF TypeOK
<1>1. \A i \in 1..Len(replies') : replies'[i] \in Replies /\ RightKind(replies'[i])
  <2>1. \/ UNCHANGED replies
        \/ replies # <<>> /\ replies' = Tail(replies)
        \/ \E k \in 0..1 : k <= Len(replies) /\ replies' = SubSeq(replies, 1, k)
        \/ /\ requests # <<>> /\ Head(requests) # Torn
           /\ replies' = replies \o Answer(Head(requests))
    BY DEF Next, MainStep, InitEntry, Connect, BeginDisconnect, StopConnection,
         ReleaseConnection, Deinit, Begin, CallerStep,
           LoadIndex, StoreIndex, ReloadIndex, CheckConnection, Fill, Send, Sent, AddItem, Wait,
           WakeEarly, Take, RemoveItem, Dispatch, CloseEvent, ErrorEvent, Serve, PeerClose, Finished, vars,
           netVars
  <2>2. CASE UNCHANGED replies
    BY <1>0, <1>a, <2>2
  <2>3. CASE replies # <<>> /\ replies' = Tail(replies)
    BY <1>0, <1>a, <2>3, HeadAndTail
  <2>5. CASE \E k \in 0..1 : k <= Len(replies) /\ replies' = SubSeq(replies, 1, k)
    <3>1. PICK k \in 0..1 : k <= Len(replies) /\ replies' = SubSeq(replies, 1, k)
      BY <2>5
    <3> QED
      BY <1>0, <1>a, <3>1, Cutting
  <2>4. CASE /\ requests # <<>> /\ Head(requests) # Torn
             /\ replies' = replies \o Answer(Head(requests))
    <3>1. /\ Head(requests) \in Requests
          /\ RightFn(Head(requests)) /\ RequestStems(Head(requests))
      BY <1>0, <1>a, <2>4, HeadAndTail
    <3> DEFINE answer == Answer(Head(requests))
    <3>2. /\ answer \in Seq(Replies)
          /\ \A j \in 1..Len(answer) : RightKind(answer[j])
      BY <3>1, AnswerType, AnswerIsRight
    <3>3. replies' = replies \o answer
      BY <2>4
    <3> HIDE DEF answer
    <3>4. \A j \in 1..Len(answer) : answer[j] \in Replies
      BY <3>2
    <3> QED
      BY <1>0, <1>a, <3>2, <3>3, <3>4, Concatenating
  <2> QED
    BY <2>1, <2>2, <2>3, <2>4, <2>5
<1>2. ASSUME NEW i \in 1..Len(replies'), NEW r, r = replies'[i] PROVE RightKind(r)'
  BY <1>1, <1>2, RightKindStays
<1> QED
  BY <1>2 DEF RightKind

-----------------------------------------------------------------------------
(* What a woken thread finds *)

Excused(c) == Collided(CallOf(c)) \/ CallOf(c) \in early

\* What ValueInv says of a woken thread, and of one that took its result.
WokenWell(c) ==
  pc[c] = "woken" /\ fn[c] = "value" =>
    m_waitingItems[msgId[c]].kind = "result" \/ Excused(c)
TookWell(c) ==
  Finishing(c) /\ ret[c].kind = "default" =>
    idOf[CallOf(c)] # 0 /\ (fn[c] = "value" => Excused(c))

LEMMA ValueByThread ==
  /\ ValueInv => \A c \in Callers : WokenWell(c) /\ TookWell(c)
  /\ (/\ RightFn(m_sendBuffer)'
      /\ \A i \in 1..Len(requests') : RightFn(requests[i])'
      /\ \A i \in 1..Len(replies') : RightKind(replies[i])'
      /\ \A c \in Callers : WokenWell(c)' /\ TookWell(c)') => ValueInv'
BY DEF ValueInv, NoSilentDefault, WokenWell, TookWell, Excused

\* An excuse holds for the rest of the call.
LEMMA ExcusedStays ==
  ASSUME TypeOK, ClientInv, [Next]_vars, NEW c \in Callers, n'[c] = n[c],
         CallOf(c) \in Calls, idOf[CallOf(c)] # 0, Excused(c)
  PROVE  Excused(c)'
<1>1. early \subseteq early'
  BY DEF Next, MainStep, InitEntry, Connect, BeginDisconnect, StopConnection,
         ReleaseConnection, Deinit, Begin, CallerStep,
         LoadIndex, StoreIndex, ReloadIndex, CheckConnection, Fill, Send, Sent, AddItem, Wait,
         WakeEarly, Take, RemoveItem, Dispatch, CloseEvent, ErrorEvent, Serve, PeerClose, Finished, vars
<1>2. CASE Collided(CallOf(c))
  BY <1>2, CollidedStays DEF Excused, Collided
<1>3. CASE CallOf(c) \in early
  BY <1>1, <1>3 DEF Excused
<1> QED
  BY <1>2, <1>3 DEF Excused

\* A woken thread that is left alone, its item too.
LEMMA WokenStays ==
  ASSUME TypeOK, ClientInv, ValueInv, [Next]_vars, NEW c \in Callers,
         pc'[c] = "woken" => pc[c] = "woken" /\ n'[c] = n[c] /\ fn'[c] = fn[c]
                             /\ msgId'[c] = msgId[c]
                             /\ m_waitingItems'[msgId[c]] = m_waitingItems[msgId[c]]
  PROVE  WokenWell(c)'
<1> SUFFICES ASSUME pc'[c] = "woken", fn'[c] = "value"
             PROVE  m_waitingItems'[msgId'[c]].kind = "result" \/ Excused(c)'
  BY DEF WokenWell
<1>1. CallOf(c) \in Calls /\ idOf[CallOf(c)] # 0
  BY DEF ClientInv, IdsAreKnown, InWait, TypeOK
<1>2. WokenWell(c)
  BY ValueByThread
<1> QED
  BY <1>1, <1>2, ExcusedStays DEF WokenWell

LEMMA WokenByThread ==
  ASSUME TypeOK, ClientInv, ValueInv, [Next]_vars, NEW d \in Callers,
         CallerStep(d) \/ WakeEarly(d), NEW c \in Callers
  PROVE  WokenWell(c)'
<1>1. CASE c = d
  <2>1. pc \in [Callers -> Pcs]
    BY DEF TypeOK
  <2>2. pc'[c] = "woken" => WakeEarly(c)
    BY <1>1, <2>1 DEF CallerStep, LoadIndex, StoreIndex, ReloadIndex, CheckConnection, Fill, Send, Sent,
           AddItem, Wait, WakeEarly, Take, RemoveItem, Goto, Return
  <2>3. WakeEarly(c) => Excused(c)'
    BY DEF WakeEarly, Excused, callVars
  <2> QED
    BY <2>2, <2>3 DEF WokenWell
<1>2. CASE c # d /\ pc[c] = "woken"
  <2>1. /\ pc'[c] = pc[c] /\ n' = n /\ fn' = fn /\ msgId'[c] = msgId[c]
    BY <1>2, OthersStay
  <2>2. m_waitingItems'[msgId[c]] = m_waitingItems[msgId[c]]
    <3>1. /\ m_waitingItems[msgId[c]] # Absent
          /\ pc[d] \in InWait => msgId[d] # msgId[c]
      BY <1>2 DEF ClientInv, ItemsHaveOwners, InWait
    <3>2. m_waitingItems \in [MsgIds -> Values]
      BY DEF TypeOK
    <3>3. msgId[c] \in MsgIds
      BY <1>2, HolderHasId DEF ClientInv, InWait
    <3> HIDE DEF MsgIds
    <3>4. \/ UNCHANGED m_waitingItems
          \/ /\ m_waitingItems' = [m_waitingItems EXCEPT ![msgId[d]] = Empty]
             /\ m_waitingItems[msgId[d]] = Absent \/ pc[d] \in InWait
          \/ /\ m_waitingItems' = [m_waitingItems EXCEPT ![msgId[d]] = Absent]
             /\ pc[d] \in InWait
      BY DEF CallerStep, LoadIndex, StoreIndex, ReloadIndex, CheckConnection, Fill, Send, Sent,
           AddItem, Wait, WakeEarly, Take, RemoveItem, InWait
    <3> QED
      BY <3>1, <3>2, <3>3, <3>4
  <2> QED
    BY <1>2, <2>1, <2>2, WokenStays
<1>3. CASE c # d /\ pc[c] # "woken"
  BY <1>3, OthersStay DEF WokenWell
<1> QED
  BY <1>1, <1>2, <1>3

LEMMA WokenByDispatch ==
  ASSUME TypeOK, ClientInv, ValueInv, Dispatch, NEW c \in Callers
  PROVE  WokenWell(c)'
<1> DEFINE r == Head(replies)
<1>1. /\ replies # <<>> /\ replies \in Seq(Replies) /\ pc \in [Callers -> Pcs]
      /\ m_waitingItems \in [MsgIds -> Values]
  BY DEF Dispatch, TypeOK
<1>2. r \in Replies /\ RightKind(r)
  BY <1>1, HeadAndTail DEF ValueInv
<1>3. UNCHANGED <<n, fn, msgId, idOf, early, torn>>
  BY DEF Dispatch, callVars, idVars, raceVars
<1> SUFFICES ASSUME pc'[c] = "woken", fn[c] = "value"
             PROVE  m_waitingItems'[msgId[c]].kind = "result" \/ Excused(c)
  BY <1>3 DEF WokenWell, Excused, Collided
<1>4. \/ pc[c] = "woken"
      \/ /\ pc[c] = "cvwait" /\ msgId[c] = r.id
         /\ m_waitingItems' = [m_waitingItems EXCEPT ![r.id] = r.msg]
  BY <1>1 DEF Dispatch
<1>5. /\ msgId[c] \in MsgIds /\ idOf[CallOf(c)] = msgId[c] /\ n[c] # 0
  BY <1>4, HolderHasId DEF ClientInv, IdsAreKnown, InWait
<1>6. msgId[c] = r.id => r.msg.kind = "result" \/ Excused(c)
  BY <1>2, <1>5 DEF RightKind, Excused
<1>7. CASE m_waitingItems' = [m_waitingItems EXCEPT ![r.id] = r.msg]
  <2>1. WokenWell(c)
    BY ValueByThread
  <2> HIDE DEF MsgIds, r
  <2> QED
    BY <1>1, <1>4, <1>5, <1>6, <1>7, <2>1 DEF WokenWell
<1>8. CASE UNCHANGED m_waitingItems
  <2>1. WokenWell(c)
    BY ValueByThread
  <2>2. CASE pc[c] = "woken"
    BY <1>8, <2>1, <2>2 DEF WokenWell
  <2>3. CASE pc[c] # "woken"
    BY <1>1, <1>2, <1>4, <1>5, <1>6, <1>8, <2>3 DEF Replies
  <2> QED
    BY <2>2, <2>3
<1> QED
  BY <1>7, <1>8 DEF Dispatch

LEMMA WokenStep ==
  ASSUME TypeOK, ClientInv, ValueInv, [Next]_vars, NEW c \in Callers
  PROVE  WokenWell(c)'
<1>1. CASE \E d \in Callers : CallerStep(d) \/ WakeEarly(d)
  BY <1>1, WokenByThread
<1>2. CASE Dispatch
  BY <1>2, WokenByDispatch
<1>3. CASE \E d \in Callers, f \in Functions, s \in BOOLEAN : Begin(d, f, s)
  <2>1. PICK d \in Callers, f \in Functions, s \in BOOLEAN : Begin(d, f, s)
    BY <1>3
  <2>2. /\ UNCHANGED <<msgId, m_waitingItems>>
        /\ \A e \in Callers \ {d} : n'[e] = n[e] /\ fn'[e] = fn[e] /\ pc'[e] = pc[e]
        /\ pc'[d] # "woken"
    BY <2>1, BeginsNewCall
  <2> QED
    BY <2>2, WokenStays
<1>4. CASE Deinit
  BY <1>4 DEF Deinit, Quiet, WokenWell
<1>5. CASE UNCHANGED <<n, fn, pc, msgId, m_waitingItems>>
  BY <1>5, WokenStays
<1> QED
  BY <1>1, <1>2, <1>3, <1>4, <1>5
     DEF Next, MainStep, InitEntry, Connect, BeginDisconnect, StopConnection,
         ReleaseConnection, CloseEvent, ErrorEvent, Serve, PeerClose, Finished,
         vars, callVars, idVars

-----------------------------------------------------------------------------
(* What a call returns *)

\* A thread that stays where it is keeps what it returned.
LEMMA TookStays ==
  ASSUME TypeOK, ClientInv, ValueInv, [Next]_vars, NEW c \in Callers,
         n'[c] = n[c], fn'[c] = fn[c], ret'[c] = ret[c], Finishing(c)' => Finishing(c)
  PROVE  TookWell(c)'
<1> SUFFICES ASSUME Finishing(c)', ret'[c].kind = "default"
             PROVE  idOf'[CallOf(c)'] # 0 /\ (fn'[c] = "value" => Excused(c)')
  BY DEF TookWell
<1>1. TookWell(c) /\ Finishing(c) /\ ret[c].kind = "default"
  BY ValueByThread
<1>2. CallOf(c) \in Calls /\ idOf[CallOf(c)] # 0
  BY <1>1 DEF TookWell, Finishing, TypeOK, ClientInv, IdsAreKnown
<1>3. idOf'[CallOf(c)] # 0
  BY <1>2, IdStays
<1> QED
  BY <1>1, <1>2, <1>3, ExcusedStays DEF TookWell

LEMMA TookByTake ==
  ASSUME TypeOK, ClientInv, ValueInv, NEW c \in Callers, Take(c)
  PROVE  TookWell(c)'
<1>1. /\ pc[c] = "woken" /\ UNCHANGED <<n, fn, idOf, early, torn>>
      /\ ret'[c].kind = "default" => m_waitingItems[msgId[c]].kind # "result"
  BY ValueFields DEF Take, TypeOK, callVars, idVars, raceVars
<1>2. idOf[CallOf(c)] # 0
  BY <1>1 DEF ClientInv, IdsAreKnown, InWait
<1>3. WokenWell(c)
  BY ValueByThread
<1> QED
  BY <1>1, <1>2, <1>3 DEF WokenWell, TookWell, Excused, Collided

LEMMA TookStep ==
  ASSUME TypeOK, ClientInv, ValueInv, [Next]_vars, NEW c \in Callers
  PROVE  TookWell(c)'
<1>1. ASSUME NEW d \in Callers, CallerStep(d) \/ WakeEarly(d)
      PROVE  TookWell(c)'
  <2>1. CASE c # d
    BY <1>1, <2>1, OthersStay, TookStays DEF Finishing
  <2>2. CASE Take(c)
    BY <2>2, TookByTake
  <2>3. CASE c = d /\ ~Take(c)
    <3>1. \/ /\ n'[c] = n[c] /\ fn'[c] = fn[c] /\ ret'[c] = ret[c]
             /\ Finishing(c)' => Finishing(c)
          \/ ret'[c] \in {Plain("failed"), Plain("sent")}
      BY <1>1, <2>3 DEF CallerStep, LoadIndex, StoreIndex, ReloadIndex, CheckConnection, Fill,
            Send, Sent, AddItem, Wait, WakeEarly, RemoveItem, Goto, Return, callVars, Finishing, TypeOK
    <3> QED
      BY <3>1, TookStays, ValueFields DEF TookWell
  <2> QED
    BY <2>1, <2>2, <2>3
<1>2. ASSUME NEW d \in Callers, NEW f \in Functions, NEW s \in BOOLEAN, Begin(d, f, s)
      PROVE  TookWell(c)'
  <2>1. /\ \A e \in Callers \ {d} :
             n'[e] = n[e] /\ fn'[e] = fn[e] /\ pc'[e] = pc[e] /\ ret'[e] = ret[e]
        /\ pc'[d] = "load" \/ (pc'[d] = "idle" /\ ret'[d] = Plain("failed"))
    BY <1>2, BeginsNewCall
  <2>2. CASE c # d
    BY <2>1, <2>2, TookStays DEF Finishing
  <2>3. CASE c = d
    BY <2>1, <2>3, ValueFields DEF TookWell, Finishing
  <2> QED
    BY <2>2, <2>3
<1>3. CASE Dispatch
  <2>1. UNCHANGED <<callVars, ret>>
    BY <1>3 DEF Dispatch
  <2>2. Finishing(c)' => Finishing(c)
    <3>1. UNCHANGED pc \/ \E d \in Callers : pc' = [pc EXCEPT ![d] = "woken"]
      BY <1>3 DEF Dispatch
    <3> QED
      BY <2>1, <3>1 DEF Finishing, TypeOK, callVars
  <2> QED
    BY <2>1, <2>2, TookStays DEF callVars
<1>4. CASE UNCHANGED <<callVars, pc, ret>>
  BY <1>4, TookStays DEF Finishing, callVars
<1> QED
  BY <1>1, <1>2, <1>3, <1>4
     DEF Next, MainStep, InitEntry, Connect, BeginDisconnect, StopConnection,
         ReleaseConnection, Deinit, CloseEvent, ErrorEvent, Serve, PeerClose,
         Finished, vars

-----------------------------------------------------------------------------
(* The invariant *)

LEMMA ValueInit ==
  ASSUME Init
  PROVE  ValueInv
<1>1. RightFn(m_sendBuffer)
  BY NoTornRequest DEF Init, RightFn
<1>2. /\ \A i \in 1..Len(requests) : RightFn(requests[i])
      /\ \A i \in 1..Len(replies) : RightKind(replies[i])
  BY DEF Init
<1>3. \A c \in Callers : pc[c] = "idle" /\ n[c] = 0
  BY DEF Init
<1> QED
  BY <1>1, <1>2, <1>3 DEF ValueInv, NoSilentDefault, Finishing

\* Requests, answers and waiting threads agree on the function that was called,
\* and on whether it has a result.
THEOREM ValueInvariant == Spec => [](TypeOK /\ ClientInv /\ ValueInv)
<1>1. Init => ValueInv
  BY ValueInit
<1>2. TypeOK /\ ClientInv /\ ValueInv /\ [Next]_vars => ValueInv'
  BY RightFnStep, RightKindStep, WokenStep, TookStep, ValueByThread
<1> QED
  BY <1>1, <1>2, ClientInvariant, PTL DEF Spec

\* A call of a value function does not return 0 with a default value, unless it
\* shared its id with a call or with a blended message, or woke without a notify.
THEOREM NoDefaultForResult == Spec => []NoSilentDefault
<1>1. ValueInv => NoSilentDefault
  BY DEF ValueInv
<1> QED
  BY <1>1, ValueInvariant, PTL
=============================================================================
