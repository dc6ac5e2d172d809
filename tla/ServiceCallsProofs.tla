-------------------------- MODULE ServiceCallsProofs --------------------------
(* Proofs about ServiceCalls, for every set of connections, names and        *)
(* configurations and every way the bytes are split.                         *)
EXTENDS ServiceCalls, WireProofs, WellFoundedInduction

-----------------------------------------------------------------------------
(* Reading a line of the configuration *)

\* A nonempty set of naturals has a least element.
LEMMA LeastElement ==
  ASSUME NEW T \in SUBSET Nat, T # {}
  PROVE  \E i \in T : \A j \in T : i <= j
<1> DEFINE R == OpToRel(<, Nat)
<1>1. \E i \in T : \A j \in T : ~(<<j, i>> \in R)
  BY WFMin, NatLessThanWellFounded
<1>2. \A i, j \in Nat : j < i => <<j, i>> \in R
  BY DEF OpToRel
<1> HIDE DEF R
<1>3. PICK i \in T : \A j \in T : ~(<<j, i>> \in R)
  BY <1>1
<1>4. \A j \in T : ~(j < i)
  BY <1>2, <1>3, Zenon
<1>5. \A j \in T : i <= j
  <2> TAKE j \in T
  <2>1. i \in Nat /\ j \in Nat /\ ~(j < i)
    BY <1>4
  <2> QED
    BY <2>1
<1> QED
  BY <1>5

\* The names and the values that parseLine keeps are not empty.
LEMMA ParsedItems ==
  ASSUME NEW items, \A k \in DOMAIN items : k # <<>> /\ items[k] # <<>>,
         NEW buf \in Seq(STRING), ~ParseThrows(buf)
  PROVE  LET read == ParseLine(items, buf)
         IN \A k \in DOMAIN read : k # <<>> /\ read[k] # <<>>
<1> DEFINE key == SubSeq(buf, 1, KeyEnd(buf) + 1)
           value == SubSeq(buf, ValueStart(buf) + 1, Len(buf))
<1>1. CASE IsSkipped(buf) \/ KeyEnd(buf) = NPos \/ ValueStart(buf) = NPos
  BY <1>1 DEF ParseLine
<1>2. CASE ~IsSkipped(buf) /\ KeyEnd(buf) # NPos /\ ValueStart(buf) # NPos
  <2>1. KeyEnd(buf) \in Indexes(buf)
    BY <1>2 DEF ParseThrows
  <2>2. ValueStart(buf) \in Indexes(buf)
    <3> DEFINE T == {i \in Indexes(buf) : i > EqualPos(buf) /\ buf[i + 1] # " "}
    <3>1. T # {}
      BY <1>2 DEF ValueStart, FirstOf
    <3>2. T \in SUBSET Nat
      <4>1. Indexes(buf) \subseteq Nat
        BY DEF Indexes
      <4> QED
        BY <4>1
    <3>3. \E i \in T : \A j \in T : i <= j
      BY <3>1, <3>2, LeastElement
    <3>4. ValueStart(buf) = CHOOSE i \in T : \A j \in T : i <= j
      BY <3>1 DEF ValueStart, FirstOf
    <3>5. ValueStart(buf) \in T
      BY <3>3, <3>4
    <3> QED
      BY <3>5
  <2>3. key # <<>> /\ value # <<>>
    <3>1. Len(key) = KeyEnd(buf) + 1 /\ Len(key) > 0
      BY <2>1, SubSeqProperties DEF Indexes
    <3>2. Len(value) = Len(buf) - ValueStart(buf) /\ Len(value) > 0
      BY <2>2, SubSeqProperties DEF Indexes
    <3> HIDE DEF key, value
    <3>3. Len(key) # 0 /\ Len(value) # 0
      BY <3>1, <3>2
    <3> QED
      BY <3>3
  <2>4. ParseLine(items, buf) = Emplace(items, key, value)
    BY <1>2 DEF ParseLine
  <2> HIDE DEF key, value
  <2>5. \A k \in DOMAIN Emplace(items, key, value) :
          k # <<>> /\ Emplace(items, key, value)[k] # <<>>
    BY <2>3 DEF Emplace
  <2> QED
    BY <2>4, <2>5
<1> QED
  BY <1>1, <1>2

-----------------------------------------------------------------------------
(* What goes over a connection *)

\* The first bytes of a sequence, and the rest, are sequences.
LEMMA PartIsSeq ==
  ASSUME NEW S, NEW s \in Seq(S), NEW i \in Nat \ {0}, NEW j \in Nat, j <= Len(s)
  PROVE  SubSeq(s, i, j) \in Seq(S)
<1>1. \A x \in i..j : s[x] \in S
  OBVIOUS
<1> QED
  BY <1>1, SubSeqProperties

LEMMA ByteIsNumber == 0 \in UInt8 /\ UInt8 \subseteq Nat /\ UInt8 \subseteq -1..255
BY DEF UInt8

\* A frame is made of bytes.
LEMMA FrameType ==
  ASSUME NEW body \in Seq(UInt8), Len(body) \in UInt32
  PROVE  Frame(body) \in Seq(UInt8)
<1>1. SET_UINT32_TO_CHARS(Len(body)) \in Seq(UInt8)
  BY Bytes
<1>2. <<TCP_HEADER_MAGIC>> \in Seq(UInt8)
  BY DEF TCP_HEADER_MAGIC, UInt8
<1>3. SerialerTo(Len(body)) \in Seq(UInt8)
  BY <1>1, <1>2, ConcatProperties DEF SerialerTo
<1> QED
  BY <1>3, ConcatProperties DEF Frame

\* The length that a header tells, a short one too, is a number.
LEMMA LengthType ==
  ASSUME NEW bytes \in Seq(UInt8)
  PROVE  DeserialerFrom(bytes) \in Nat
<1> DEFINE buffer == HeaderBuffer(bytes)
<1>1. buffer \in Seq(UInt8) /\ Len(buffer) = 5
  <2>1. \A i \in 1..5 : (IF i <= Len(bytes) THEN bytes[i] ELSE 0) \in UInt8
    BY ByteIsNumber
  <2>2. buffer \in [1..5 -> UInt8]
    BY <2>1 DEF HeaderBuffer, TCP_HEADER_SIZE
  <2> HIDE DEF buffer
  <2>3. \E n \in Nat : buffer \in [1..n -> UInt8]
    BY <2>2
  <2>4. buffer \in Seq(UInt8)
    BY <2>3, SeqDef
  <2> QED
    BY <2>2, <2>4, LenProperties
<1> HIDE DEF buffer
<1> DEFINE tail == Tail(buffer)
<1>2. /\ tail[1] = buffer[2] /\ tail[2] = buffer[3]
      /\ tail[3] = buffer[4] /\ tail[4] = buffer[5]
  BY <1>1, TailOfFive
<1>3. GET_UINT32_FROM_CHARS(tail) \in Nat
  <2> HIDE DEF tail
  <2> DEFINE a == buffer[2]
             b == buffer[3]
             c == buffer[4]
             d == buffer[5]
  <2>1. a \in UInt8 /\ b \in UInt8 /\ c \in UInt8 /\ d \in UInt8
    BY <1>1, ElementOfSeq
  <2>2. GET_UINT32_FROM_CHARS(tail) = a * 16777216 + b * 65536 + c * 256 + d
    BY <1>2, SMT DEF GET_UINT32_FROM_CHARS
  <2> HIDE DEF a, b, c, d
  <2>3. a * 16777216 + b * 65536 + c * 256 + d \in Nat
    BY <2>1, SMT DEF UInt8
  <2> QED
    BY <2>2, <2>3, SMT
<1>4. DeserialerFrom(bytes) = GET_UINT32_FROM_CHARS(tail)
  BY SMT DEF DeserialerFrom, tail, buffer
<1> QED
  BY <1>3, <1>4

\* The fields of a received body.
LEMMA FieldTypes ==
  ASSUME NEW body \in Seq(UInt8)
  PROVE  /\ GetMessageName(body) \in -1..255
         /\ GetMessageId(body) \in -1..255
         /\ GetMessageData(body) \in -1..255
<1>0. \A i \in 1..Len(body) : body[i] \in UInt8
  OBVIOUS
<1>1. \A i \in 1..Len(body) : body[i] \in -1..255
  BY <1>0, ByteIsNumber
<1> QED
  BY <1>1 DEF GetMessageName, GetMessageId, GetMessageData, Field, NoName, Default

-----------------------------------------------------------------------------
(* Type correctness *)

Locals == [pc : Pcs, conn : Conns \cup {0}, len : Nat, msg : Seq(UInt8), kind : Kinds,
           reply : Body]

\* A callback is that of a connection.
ConnIsSet == t.pc \in Pcs \ {"wait", "scan"} => t.conn \in Conns

TypeInv == TypeOK /\ ConnIsSet

LEMMA LocalsType ==
  /\ Idle \in Locals /\ CallbackDone \in Locals
  /\ \A l \in Locals :
       /\ \A pc \in Pcs : [l EXCEPT !.pc = pc] \in Locals
       /\ \A pc \in Pcs, k \in Conns : [l EXCEPT !.pc = pc, !.conn = k] \in Locals
       /\ \A pc \in Pcs, len \in Nat : [l EXCEPT !.pc = pc, !.len = len] \in Locals
       /\ \A pc \in Pcs, msg \in Seq(UInt8) : [l EXCEPT !.pc = pc, !.msg = msg] \in Locals
       /\ \A pc \in Pcs, kind \in Kinds : [l EXCEPT !.pc = pc, !.kind = kind] \in Locals
       /\ \A pc \in Pcs, reply \in Body : [l EXCEPT !.pc = pc, !.reply = reply] \in Locals
<1> DEFINE S == Seq(UInt8)
           B == Body
<1>1. <<>> \in S /\ <<>> \in B
  BY EmptySeq DEF Body
<1> HIDE DEF S, B
<1>2. Idle \in Locals /\ CallbackDone \in Locals
  BY <1>1 DEF Idle, CallbackDone, Locals, Pcs, Kinds, S, B
<1> QED
  BY <1>2 DEF Locals

LEMMA MethodsType ==
  ASSUME TypeInv, EntryMethods
  PROVE  m_functions' \in [Registrable -> Kinds] /\ late' \in [Registrable -> 0..2]
<1>1. m_functions \in [Registrable -> Kinds] /\ late \in [Registrable -> 0..2]
  BY DEF TypeInv, TypeOK
<1>2. PICK f \in Registrable : UnregisterMethod(f) \/ \E kind \in Kinds \ {"none"} : RegisterMethod(f, kind)
  BY DEF EntryMethods
<1>3. CASE UnregisterMethod(f)
  BY <1>1, <1>3 DEF UnregisterMethod, Kinds
<1>4. ASSUME NEW kind \in Kinds \ {"none"}, RegisterMethod(f, kind)
      PROVE  m_functions' \in [Registrable -> Kinds] /\ late' \in [Registrable -> 0..2]
  BY <1>1, <1>4 DEF RegisterMethod
<1> QED
  BY <1>2, <1>3, <1>4

\* The steps of the application's thread.
LEMMA AppType == TypeInv /\ AppStep => TypeInv'
<1> SUFFICES ASSUME TypeInv, AppStep PROVE TypeInv'
  OBVIOUS
<1> USE CallsAssumption DEF TypeInv, TypeOK, ConnIsSet, configVars, serviceVars, peerVars, loopVars
<1>1. CASE ReadLine
  <2>1. file \in Seq(Seq(STRING))
    BY <1>1 DEF ReadLine
  <2>2. file[at] \in Seq(STRING)
    BY <1>1, <2>1, ElementOfSeq DEF ReadLine
  <2>3. \A k \in DOMAIN m_configItemMap' : k # <<>> /\ m_configItemMap'[k] # <<>>
    BY <1>1, <2>2, ParsedItems DEF ReadLine
  <2>4. at' \in Nat /\ ended' \in {"no", "config", "port", "sigpipe"}
    BY <1>1 DEF ReadLine
  <2> QED
    BY <1>1, <2>3, <2>4 DEF ReadLine
<1>2. CASE EntryInit
  BY <1>2 DEF EntryInit
<1>3. CASE EntryStart
  BY <1>3 DEF EntryStart
<1>4. CASE EntryStop
  BY <1>4 DEF EntryStop
<1>5. CASE EntryDeinit
  BY <1>5 DEF EntryDeinit
<1>6. CASE EntryMethods
  <2>1. m_functions' \in [Registrable -> Kinds] /\ late' \in [Registrable -> 0..2]
    BY <1>6, MethodsType
  <2> QED
    BY <1>6, <2>1 DEF EntryMethods
<1> QED
  BY <1>1, <1>2, <1>3, <1>4, <1>5, <1>6 DEF AppStep

\* What recv returns, and what it leaves.
LEMMA RecvType ==
  ASSUME TypeInv, t.conn \in Conns, NEW len \in Nat
  PROVE  /\ Got(len) \in Seq(UInt8)
         /\ Left(len) \in [Conns -> Seq(UInt8)]
<1> DEFINE s == inbox[t.conn]
           got == IF Len(s) < len THEN Len(s) ELSE len
<1>1. s \in Seq(UInt8) /\ Len(s) \in Nat
  BY LenProperties DEF TypeInv, TypeOK
<1>2. got \in Nat /\ got <= Len(s)
  BY <1>1
<1>3. Got(len) = SubSeq(s, 1, got)
  BY DEF Got, Conn
<1> HIDE DEF got, s
<1>4. Got(len) \in Seq(UInt8)
  BY <1>1, <1>2, <1>3, PartIsSeq
<1>5. Len(Got(len)) + 1 \in Nat \ {0}
  BY <1>4, LenProperties
<1>6. SubSeq(s, Len(Got(len)) + 1, Len(s)) \in Seq(UInt8)
  BY <1>1, <1>5, PartIsSeq
<1>7. Left(len) = [inbox EXCEPT ![t.conn] = SubSeq(s, Len(Got(len)) + 1, Len(s))]
  BY DEF Left, Conn, s
<1> QED
  BY <1>4, <1>6, <1>7 DEF TypeInv, TypeOK

\* What a step of the polling thread changes.
PollVarsTyped ==
  /\ t \in Locals /\ (t.pc \in Pcs \ {"wait", "scan"} => t.conn \in Conns)
  /\ open \subseteq Conns /\ batch \subseteq Conns
  /\ inbox \in [Conns -> Seq(UInt8)]
  /\ recv \in {"out", "waiting"}
  /\ answers \in [Conns -> Seq(Body)]
  /\ ended \in {"no", "config", "port", "sigpipe"}
  /\ late \in [Registrable -> 0..2]

\* The steps of the polling thread.
LEMMA PollType == TypeInv /\ PollStep => TypeInv'
<1> SUFFICES ASSUME TypeInv, PollStep PROVE TypeInv'
  OBVIOUS
<1>t. t \in Locals /\ t.msg \in Seq(UInt8) /\ t.reply \in Body /\ t.len \in Nat
  BY DEF TypeInv, TypeOK, Locals
<1>c. t.pc \in Pcs \ {"wait", "scan"} => t.conn \in Conns
  BY DEF TypeInv, ConnIsSet
<1>s. SUFFICES ASSUME TRUE PROVE PollVarsTyped'
  <2>1. UNCHANGED <<configVars, serviceVars, peerVars>>
    BY DEF PollStep, EpollWait, NextEvent, RecvHeader, RecvBody, HandleData, Lookup, Run, Send
  <2>2. PollVarsTyped' => TypeInv'
    BY <2>1 DEF PollVarsTyped, TypeInv, TypeOK, ConnIsSet, configVars, serviceVars, peerVars, Locals
  <2> QED
    BY <2>2
<1> USE DEF PollVarsTyped
<1>o. /\ open \subseteq Conns /\ batch \subseteq Conns
      /\ inbox \in [Conns -> Seq(UInt8)]
      /\ recv \in {"out", "waiting"}
      /\ answers \in [Conns -> Seq(Body)]
      /\ ended \in {"no", "config", "port", "sigpipe"}
      /\ late \in [Registrable -> 0..2]
  BY DEF TypeInv, TypeOK
<1>d. CallbackDone \in Locals /\ CallbackDone.pc = "scan" /\ Idle \in Locals /\ Idle.pc = "wait"
  BY LocalsType DEF CallbackDone, Idle
<1>1. CASE EpollWait
  BY <1>1, <1>o, <1>d DEF EpollWait
<1>2. CASE NextEvent
  <2>1. CASE batch = {}
    BY <1>2, <1>o, <1>d, <2>1 DEF NextEvent
  <2>2. CASE batch # {}
    <3>1. PICK k \in batch :
            /\ batch' = batch \ {k}
            /\ t' \in {t, [t EXCEPT !.pc = "header", !.conn = k]}
            /\ open' \in {open, open \ {k}}
      BY <1>2, <2>2 DEF NextEvent
    <3>2. t' \in Locals
      <4>1. CASE t' = t
        BY <1>t, <4>1
      <4>2. CASE t' = [t EXCEPT !.pc = "header", !.conn = k]
        BY <1>t, <1>o, <4>2, LocalsType DEF Pcs
      <4> QED
        BY <3>1, <4>1, <4>2
    <3>3. t'.pc \in Pcs \ {"wait", "scan"} => t'.conn \in Conns
      BY <1>t, <1>c, <1>o, <3>1 DEF Locals
    <3> QED
      BY <1>2, <1>o, <3>1, <3>2, <3>3 DEF NextEvent
  <2> QED
    BY <2>1, <2>2
<1>3. CASE RecvHeader
  <2>1. t.conn \in Conns /\ Conn = t.conn
    BY <1>3, <1>c DEF RecvHeader, Pcs, Conn
  <2>2. TCP_HEADER_SIZE \in Nat
    BY DEF TCP_HEADER_SIZE
  <2>3. /\ Left(TCP_HEADER_SIZE) \in [Conns -> Seq(UInt8)]
        /\ DeserialerFrom(Got(TCP_HEADER_SIZE)) \in Nat
    BY <2>1, <2>2, RecvType, LengthType
  <2>4. \/ t' = t
        \/ t' = CallbackDone
        \/ t' = [t EXCEPT !.pc = "body", !.len = DeserialerFrom(Got(TCP_HEADER_SIZE))]
    BY <1>3 DEF RecvHeader, CloseEvent, RecvFails, RecvWaits
  <2>5. t' \in Locals /\ (t'.pc \in Pcs \ {"wait", "scan"} => t'.conn \in Conns)
    <3>1. CASE t' = CallbackDone
      BY <1>d, <3>1
    <3>3. CASE t' = t
      BY <1>t, <2>1, <3>3
    <3>2. CASE t' = [t EXCEPT !.pc = "body", !.len = DeserialerFrom(Got(TCP_HEADER_SIZE))]
      <4>1. t' \in Locals
        BY <1>t, <2>3, <3>2, LocalsType DEF Pcs
      <4>2. t'.conn = t.conn
        BY <1>t, <3>2 DEF Locals
      <4> QED
        BY <2>1, <4>1, <4>2
    <3> QED
      BY <2>4, <3>1, <3>2, <3>3
  <2>6. inbox' \in [Conns -> Seq(UInt8)]
    BY <1>3, <1>o, <2>3 DEF RecvHeader, RecvFails, RecvWaits
  <2>7. open' \subseteq Conns
    BY <1>3, <1>o DEF RecvHeader, RecvFails, RecvWaits, CloseEvent
  <2> QED
    BY <1>3, <1>o, <2>5, <2>6, <2>7 DEF RecvHeader, RecvWaits, RecvFails
<1>4. CASE RecvBody
  <2>1. t.conn \in Conns /\ Conn = t.conn
    BY <1>4, <1>c DEF RecvBody, Pcs, Conn
  <2>2. Left(t.len) \in [Conns -> Seq(UInt8)] /\ Got(t.len) \in Seq(UInt8)
    BY <1>t, <2>1, RecvType
  <2>3. t' \in {t, CallbackDone, [t EXCEPT !.pc = "handle", !.msg = Got(t.len)]}
    BY <1>4 DEF RecvBody, CloseEvent, RecvFails, RecvWaits
  <2>4. t' \in Locals /\ (t'.pc \in Pcs \ {"wait", "scan"} => t'.conn \in Conns)
    <3>1. CASE t' = CallbackDone
      BY <1>d, <3>1
    <3>3. CASE t' = t
      BY <1>t, <2>1, <3>3
    <3>2. CASE t' = [t EXCEPT !.pc = "handle", !.msg = Got(t.len)]
      <4>1. t' \in Locals
        BY <1>t, <2>2, <3>2, LocalsType DEF Pcs
      <4>2. t'.conn = t.conn
        BY <1>t, <3>2 DEF Locals
      <4> QED
        BY <2>1, <4>1, <4>2
    <3> QED
      BY <2>3, <3>1, <3>2, <3>3
  <2>5. inbox' \in [Conns -> Seq(UInt8)]
    BY <1>4, <1>o, <2>2 DEF RecvBody, RecvFails, RecvWaits
  <2>6. open' \subseteq Conns
    BY <1>4, <1>o DEF RecvBody, RecvFails, RecvWaits, CloseEvent
  <2> QED
    BY <1>4, <1>o, <2>4, <2>5, <2>6 DEF RecvBody, RecvWaits, RecvFails
<1>5. CASE HandleData
  <2> DEFINE meta == SerialMessageMeta(REPLAY, GetMessageName(t.msg), GetMessageId(t.msg))
  <2>1. meta \in Body
    <3>1. GetMessageName(t.msg) \in -1..255 /\ GetMessageId(t.msg) \in -1..255
      BY <1>t, FieldTypes
    <3>2. REPLAY \in -1..255
      BY DEF REPLAY
    <3> QED
      BY <3>1, <3>2 DEF SerialMessageMeta, Body
  <2>2. t.conn \in Conns
    BY <1>5, <1>c DEF HandleData, Pcs
  <2>3. t' = CallbackDone \/ t' = [t EXCEPT !.pc = "lookup", !.reply = meta]
    BY <1>5 DEF HandleData
  <2> HIDE DEF meta
  <2>4. t' \in Locals /\ (t'.pc \in Pcs \ {"wait", "scan"} => t'.conn \in Conns)
    <3>1. CASE t' = CallbackDone
      BY <1>d, <3>1
    <3>2. CASE t' = [t EXCEPT !.pc = "lookup", !.reply = meta]
      <4>1. t' \in Locals
        BY <1>t, <2>1, <3>2, LocalsType DEF Pcs
      <4>2. t'.conn = t.conn
        BY <1>t, <3>2 DEF Locals
      <4> QED
        BY <2>2, <4>1, <4>2
    <3> QED
      BY <2>3, <3>1, <3>2
  <2> QED
    BY <1>5, <1>o, <2>4 DEF HandleData
<1>6. CASE Lookup
  <2>1. t.conn \in Conns
    BY <1>6, <1>c DEF Lookup, Pcs
  <2>2. \/ \E kind \in Kinds : t' = [t EXCEPT !.pc = "run", !.kind = kind]
        \/ t' = [t EXCEPT !.pc = "send"]
    <3>1. \A f \in Registrable : m_functions[f] \in Kinds
      BY DEF TypeInv, TypeOK
    <3> QED
      BY <1>6, <3>1 DEF Lookup
  <2>3. t' \in Locals
    <3>1. "run" \in Pcs /\ "send" \in Pcs
      BY DEF Pcs
    <3>2. CASE \E kind \in Kinds : t' = [t EXCEPT !.pc = "run", !.kind = kind]
      <4>1. PICK kind \in Kinds : t' = [t EXCEPT !.pc = "run", !.kind = kind]
        BY <3>2
      <4>2. [t EXCEPT !.pc = "run", !.kind = kind] \in Locals
        BY <1>t, <3>1, LocalsType
      <4> QED
        BY <4>1, <4>2
    <3>3. CASE t' = [t EXCEPT !.pc = "send"]
      BY <1>t, <3>1, <3>3, LocalsType
    <3> QED
      BY <2>2, <3>2, <3>3
  <2>4. t'.conn = t.conn
    BY <1>t, <2>2 DEF Locals
  <2> QED
    BY <1>6, <1>o, <2>1, <2>3, <2>4 DEF Lookup
<1>7. CASE Run
  <2> DEFINE reply == Exec(t.kind, t.msg, t.reply)
  <2>1. reply # <<>> => reply \in Body
    <3>1. GetMessageData(t.msg) \in -1..255
      BY <1>t, FieldTypes
    <3>2. SerialMessageData(GetMessageData(t.msg), t.reply) \in Body
      BY <1>t, <3>1, AppendProperties DEF SerialMessageData, Body
    <3> QED
      BY <3>2 DEF Exec
  <2>2. t.conn \in Conns
    BY <1>7, <1>c DEF Run, Pcs
  <2>3. \/ t' = CallbackDone
        \/ reply # <<>> /\ t' = [t EXCEPT !.pc = "send", !.reply = reply]
    BY <1>7 DEF Run
  <2> HIDE DEF reply
  <2>4. t' \in Locals /\ (t'.pc \in Pcs \ {"wait", "scan"} => t'.conn \in Conns)
    <3>1. CASE t' = CallbackDone
      BY <1>d, <3>1
    <3>2. CASE reply # <<>> /\ t' = [t EXCEPT !.pc = "send", !.reply = reply]
      <4>1. t' \in Locals
        BY <1>t, <2>1, <3>2, LocalsType DEF Pcs
      <4>2. t'.conn = t.conn
        BY <1>t, <3>2 DEF Locals
      <4> QED
        BY <2>2, <4>1, <4>2
    <3> QED
      BY <2>3, <3>1, <3>2
  <2>5. late' \in [Registrable -> 0..2]
    <3>1. \/ late' = late
          \/ LET f == GetMessageName(t.msg) IN late[f] < 2 /\ late' = [late EXCEPT ![f] = @ + 1]
      BY <1>7 DEF Run
    <3> QED
      BY <1>o, <3>1
  <2> QED
    BY <1>7, <1>o, <2>4, <2>5 DEF Run
<1>8. CASE Send
  <2>1. t.conn \in Conns /\ Conn = t.conn
    BY <1>8, <1>c DEF Send, Pcs, Conn
  <2>2. Append(answers[t.conn], t.reply) \in Seq(Body)
    BY <1>t, <1>o, <2>1, AppendProperties
  <2>3. answers' = answers \/ answers' = [answers EXCEPT ![t.conn] = Append(answers[t.conn], t.reply)]
    BY <1>8, <2>1 DEF Send
  <2>4. answers' \in [Conns -> Seq(Body)]
    BY <1>o, <2>2, <2>3
  <2>5. ended' \in {"no", "sigpipe"}
    BY <1>8 DEF Send
  <2> QED
    BY <1>8, <1>o, <1>d, <2>4, <2>5 DEF Send
<1> QED
  BY <1>1, <1>2, <1>3, <1>4, <1>5, <1>6, <1>7, <1>8 DEF PollStep

\* The steps of the peers.
LEMMA PeerType == TypeInv /\ PeerStep => TypeInv'
<1> SUFFICES ASSUME TypeInv, NEW k \in Conns,
                    Connect(k) \/ Transmit(k) \/ PeerClose(k) \/ \E f \in Names : PeerSend(k, f)
             PROVE  TypeInv'
  BY DEF PeerStep
<1>o. /\ open \subseteq Conns /\ eof \subseteq Conns
      /\ out \in [Conns -> Seq(UInt8)] /\ inbox \in [Conns -> Seq(UInt8)]
      /\ sent \in [Conns -> Seq(Names)]
  BY DEF TypeInv, TypeOK
<1>s. SUFFICES ASSUME TRUE
               PROVE  /\ open' \subseteq Conns /\ eof' \subseteq Conns
                      /\ out' \in [Conns -> Seq(UInt8)] /\ inbox' \in [Conns -> Seq(UInt8)]
                      /\ sent' \in [Conns -> Seq(Names)]
  <2>1. UNCHANGED <<configVars, serviceVars, loopVars, ended, late>>
    BY DEF Connect, Transmit, PeerClose, PeerSend
  <2> QED
    BY <2>1 DEF TypeInv, TypeOK, ConnIsSet, configVars, serviceVars, loopVars
<1>1. CASE Connect(k)
  BY <1>1, <1>o DEF Connect, peerVars
<1>2. CASE Transmit(k)
  <2>1. PICK len \in 1..Len(out[k]) :
          /\ inbox' = [inbox EXCEPT ![k] = inbox[k] \o SubSeq(out[k], 1, len)]
          /\ out' = [out EXCEPT ![k] = SubSeq(out[k], len + 1, Len(out[k]))]
    BY <1>2 DEF Transmit
  <2>2. out[k] \in Seq(UInt8) /\ inbox[k] \in Seq(UInt8) /\ Len(out[k]) \in Nat
    BY <1>o, LenProperties
  <2>3. len \in Nat /\ len <= Len(out[k]) /\ len + 1 \in Nat \ {0}
    BY <2>1, <2>2
  <2>4. SubSeq(out[k], 1, len) \in Seq(UInt8) /\ SubSeq(out[k], len + 1, Len(out[k])) \in Seq(UInt8)
    BY <2>2, <2>3, PartIsSeq
  <2>5. inbox[k] \o SubSeq(out[k], 1, len) \in Seq(UInt8)
    BY <2>2, <2>4, ConcatProperties
  <2>6. out' \in [Conns -> Seq(UInt8)] /\ inbox' \in [Conns -> Seq(UInt8)]
    BY <1>o, <2>1, <2>4, <2>5
  <2> QED
    BY <1>2, <1>o, <2>6 DEF Transmit
<1>3. CASE PeerClose(k)
  <2>1. <<>> \in Seq(UInt8)
    BY EmptySeq
  <2> QED
    BY <1>3, <1>o, <2>1 DEF PeerClose
<1>4. ASSUME NEW f \in Names, PeerSend(k, f)
      PROVE  /\ open' \subseteq Conns /\ eof' \subseteq Conns
             /\ out' \in [Conns -> Seq(UInt8)] /\ inbox' \in [Conns -> Seq(UInt8)]
             /\ sent' \in [Conns -> Seq(Names)]
  <2> DEFINE id == Len(sent[k]) + 1
  <2>1. sent[k] \in Seq(Names) /\ Len(sent[k]) \in Nat
    BY <1>o, LenProperties
  <2>2. id \in UInt8 /\ f \in UInt8 /\ k \in UInt8 /\ COMMAND \in UInt8
    <3>1. Len(sent[k]) < MaxRequests[k] /\ MaxRequests[k] \in 1..255
      BY <1>4, CallsAssumption DEF PeerSend
    <3>2. id \in 0..255
      <4> DEFINE len == Len(sent[k])
                 max == MaxRequests[k]
      <4>1. len \in Nat /\ len < max /\ max \in 1..255
        BY <2>1, <3>1
      <4> HIDE DEF len, max
      <4>2. len + 1 \in 0..255
        BY <4>1
      <4> QED
        BY <4>2 DEF len
    <3> QED
      BY <3>2, CallsAssumption DEF UInt8, COMMAND
  <2> HIDE DEF id
  <2>3. Request(k, f, id) \in Seq(UInt8) /\ Len(Request(k, f, id)) = 4
    BY <2>2 DEF Request
  <2>4. Frame(Request(k, f, id)) \in Seq(UInt8)
    <3>1. Len(Request(k, f, id)) \in UInt32
      BY <2>3, SMT DEF UInt32
    <3> QED
      BY <2>3, <3>1, FrameType
  <2>5. Append(sent[k], f) \in Seq(Names)
    BY <2>1, AppendProperties
  <2>6. out' = [out EXCEPT ![k] = Frame(Request(k, f, id))] /\ sent' = [sent EXCEPT ![k] = Append(sent[k], f)]
    BY <1>4 DEF PeerSend, id
  <2>7. out' \in [Conns -> Seq(UInt8)] /\ sent' \in [Conns -> Seq(Names)]
    BY <1>o, <2>4, <2>5, <2>6
  <2> QED
    BY <1>4, <1>o, <2>7 DEF PeerSend
<1> QED
  BY <1>1, <1>2, <1>3, <1>4

LEMMA InitialType == Init => TypeInv
<1> SUFFICES ASSUME Init PROVE TypeInv
  OBVIOUS
<1>1. \A S : <<>> \in Seq(S)
  BY EmptySeq
<1>2. Idle \in Locals /\ Idle.pc = "wait"
  BY LocalsType DEF Idle
<1>3. /\ out \in [Conns -> Seq(UInt8)] /\ inbox \in [Conns -> Seq(UInt8)]
      /\ sent \in [Conns -> Seq(Names)] /\ answers \in [Conns -> Seq(Body)]
  BY <1>1 DEF Init
<1>4. DOMAIN m_configItemMap = {}
  BY DEF Init
<1>5. m_functions \in [Registrable -> Kinds] /\ late \in [Registrable -> 0..2]
  BY DEF Init, Kinds
<1> QED
  BY <1>2, <1>3, <1>4, <1>5 DEF Init, TypeInv, TypeOK, ConnIsSet, Locals

LEMMA NextType == TypeInv /\ [Next]_vars => TypeInv'
<1> SUFFICES ASSUME TypeInv, [Next]_vars PROVE TypeInv'
  OBVIOUS
<1>1. CASE UNCHANGED vars
  BY <1>1 DEF TypeInv, TypeOK, ConnIsSet, vars, configVars, serviceVars, peerVars, loopVars
<1> QED
  BY <1>1, AppType, PollType, PeerType DEF Next

\* Every variable keeps its type: what is read from a connection is made of bytes,
\* the length of a frame is a number, and no name or value that RpcConfig keeps is
\* empty.
THEOREM TypeCorrect == Spec => []TypeOK
<1>1. TypeInv => TypeOK
  BY DEF TypeInv
<1> QED
  BY <1>1, InitialType, NextType, PTL DEF Spec

-----------------------------------------------------------------------------
(* A function that was unregistered runs once more at most *)

\* The function that is about to run.
InHand(f) == t.pc = "run" /\ GetMessageName(t.msg) = f

\* What has run late has no second copy in hand, and none can be made of it.
LateInv ==
  /\ t.pc = "run" => GetMessageName(t.msg) \in Registrable
  /\ \A f \in Registrable :
       late[f] = 0 \/ (late[f] = 1 /\ m_functions[f] = "none" /\ ~InHand(f))

\* A thread that finds nothing, or does something else, has no function in hand.
LEMMA LateKept ==
  ASSUME TypeInv, LateInv, UNCHANGED late,
         t'.pc = "run" => t' = t \/ \E f \in Registrable : m_functions[f] # "none" /\ InHand(f)',
         \A f \in Registrable : late[f] = 1 => m_functions'[f] = "none"
  PROVE  LateInv'
<1>1. t'.pc = "run" => GetMessageName(t'.msg) \in Registrable
  BY DEF LateInv, InHand
<1>2. ASSUME NEW f \in Registrable, late[f] # 0
      PROVE  late'[f] = 1 /\ m_functions'[f] = "none" /\ ~InHand(f)'
  BY <1>2 DEF LateInv, InHand
<1> QED
  BY <1>1, <1>2 DEF LateInv

LEMMA LateStep == TypeInv /\ LateInv /\ [Next]_vars => LateInv'
<1> SUFFICES ASSUME TypeInv, LateInv, [Next]_vars PROVE LateInv'
  OBVIOUS
<1>f. /\ m_functions \in [Registrable -> Kinds] /\ late \in [Registrable -> 0..2]
      /\ t \in Locals
  BY DEF TypeInv, TypeOK, Locals
<1>l. \A f \in Registrable : late[f] = 1 => m_functions[f] = "none"
  BY DEF LateInv
<1>1. CASE UNCHANGED <<t, late, m_functions>>
  BY <1>1, <1>l, LateKept
<1>2. CASE EntryMethods
  <2>0. UNCHANGED t
    BY <1>2 DEF EntryMethods, loopVars
  <2>1. PICK f \in Registrable : UnregisterMethod(f) \/ \E kind \in Kinds \ {"none"} : RegisterMethod(f, kind)
    BY <1>2 DEF EntryMethods
  <2>2. CASE UnregisterMethod(f)
    <3>1. \A g \in Registrable : late[g] = 1 => m_functions'[g] = "none"
      BY <1>f, <1>l, <2>2 DEF UnregisterMethod
    <3> QED
      BY <2>0, <2>2, <3>1, LateKept DEF UnregisterMethod
  <2>3. ASSUME NEW kind \in Kinds \ {"none"}, RegisterMethod(f, kind) PROVE LateInv'
    <3>1. CASE m_functions[f] # "none"
      BY <1>l, <2>0, <2>3, <3>1, LateKept DEF RegisterMethod
    <3>2. CASE m_functions[f] = "none"
      <4>1. late'[f] = 0 /\ \A g \in Registrable \ {f} : late'[g] = late[g] /\ m_functions'[g] = m_functions[g]
        BY <1>f, <2>3, <3>2 DEF RegisterMethod
      <4> QED
        BY <2>0, <4>1 DEF LateInv, InHand
    <3> QED
      BY <3>1, <3>2
  <2> QED
    BY <2>1, <2>2, <2>3
<1>3. CASE Lookup
  <2>1. t'.pc = "run" => \E f \in Registrable : m_functions[f] # "none" /\ InHand(f)'
    BY <1>3, <1>f DEF Lookup, InHand, Locals
  <2> QED
    BY <1>3, <1>l, <2>1, LateKept DEF Lookup, serviceVars
<1>4. CASE Run
  <2> DEFINE f == GetMessageName(t.msg)
  <2>1. t.pc = "run" /\ f \in Registrable /\ InHand(f)
    BY <1>4 DEF Run, LateInv, InHand
  <2>2. t'.pc # "run" /\ UNCHANGED m_functions
    BY <1>4, <1>f DEF Run, CallbackDone, Idle, Locals, serviceVars
  <2>3. late[f] = 0
    BY <2>1 DEF LateInv
  <2>4. late' = IF m_functions[f] = "none" THEN [late EXCEPT ![f] = 1] ELSE late
    BY <1>4, <1>f, <2>1, <2>3 DEF Run
  <2> HIDE DEF f
  <2> QED
    BY <1>f, <2>1, <2>2, <2>3, <2>4 DEF LateInv, InHand
<1>5. CASE EpollWait \/ NextEvent \/ RecvHeader \/ RecvBody \/ HandleData \/ Send
  <2>1. UNCHANGED <<late, m_functions>>
    BY <1>5 DEF EpollWait, NextEvent, RecvHeader, RecvBody, HandleData, Send, serviceVars
  <2>2. CallbackDone.pc = "scan" /\ Idle.pc = "wait"
    BY DEF CallbackDone, Idle
  <2>3. t'.pc # "run"
    <3>1. CASE EpollWait \/ NextEvent
      BY <2>2, <3>1, <1>f DEF EpollWait, NextEvent, Locals
    <3>2. CASE RecvHeader
      BY <2>2, <3>2, <1>f DEF RecvHeader, CloseEvent, RecvFails, RecvWaits, Locals
    <3>3. CASE RecvBody
      BY <2>2, <3>3, <1>f DEF RecvBody, CloseEvent, RecvFails, RecvWaits, Locals
    <3>4. CASE HandleData
      BY <2>2, <3>4, <1>f DEF HandleData, Locals
    <3>5. CASE Send
      BY <2>2, <3>5 DEF Send
    <3> QED
      BY <1>5, <3>1, <3>2, <3>3, <3>4, <3>5
  <2> QED
    BY <1>l, <2>1, <2>3, LateKept
<1>6. CASE (AppStep /\ ~EntryMethods) \/ PeerStep \/ UNCHANGED vars
  <2>1. UNCHANGED <<t, late, m_functions>>
    BY <1>6 DEF AppStep, ReadLine, EntryInit, EntryStart, EntryStop, EntryDeinit, PeerStep, Connect,
                PeerSend, Transmit, PeerClose, vars, serviceVars, loopVars
  <2> QED
    BY <1>1, <2>1
<1> QED
  BY <1>2, <1>3, <1>4, <1>5, <1>6 DEF Next, PollStep, AppStep

\* After unregisterMethod has returned, the function runs once more at most, and
\* only from the copy that handleCommand had taken before: whatever is registered
\* and unregistered meanwhile, and however many requests for it wait.
THEOREM UnregisteredRunsOnce == Spec => []AtMostOneLateRun
<1>1. Init => LateInv
  BY DEF Init, LateInv, Idle
<1>2. LateInv => AtMostOneLateRun
  BY DEF LateInv, AtMostOneLateRun
<1> QED
  BY <1>1, <1>2, InitialType, NextType, LateStep, PTL DEF Spec

-----------------------------------------------------------------------------
(* What is read, handled and answered: the bytes of a connection *)

\* The n-th frame of a connection: five bytes of header and four of body.
FrameOf(k, n) == Frame(Request(k, sent[k][n], n))

\* The place of the o-th byte of the i-th frame.
Place(i, o) == 9 * i - 9 + o

\* The bytes are those of k's frames behind the first c, up to r.
Carries(k, c, r, bytes) ==
  \A i \in 1..Len(sent[k]) : \A o \in 1..9 :
    c < Place(i, o) /\ Place(i, o) <= r => bytes[Place(i, o) - c] = FrameOf(k, i)[o]

\* Of the bytes of k's frames, one frame after another, the first c were read and
\* the next ones, up to r, wait in the inbox.
Consumed(k, c, r) == Len(inbox[k]) = r - c /\ Carries(k, c, r, inbox[k])

\* The bytes behind r have not left the peer, all of them in its last frame; when
\* it has broken off, they are lost.
Transmitted(k, r) ==
  /\ 9 * Len(sent[k]) <= r + 9
  /\ k \in eof => out[k] = <<>>
  /\ k \notin eof =>
       /\ Len(out[k]) = 9 * Len(sent[k]) - r
       /\ \A i \in 1..Len(sent[k]) : \A o \in 1..9 :
            r < Place(i, o) => out[k][Place(i, o) - r] = FrameOf(k, i)[o]

Handles(k) == t.conn = k /\ t.pc \in {"handle", "lookup", "run", "send"}

\* A connection is read from one of its frames to the next.  Only when the peer has
\* broken off may the bytes end in between, and then nothing is left.
BetweenFrames(k, c, r) ==
  (k \in open \/ (t.conn = k /\ t.pc = "header")) /\ ~(t.conn = k /\ t.pc = "body") =>
    \/ \E i \in 0..Len(sent[k]) : c = 9 * i
    \/ k \in eof /\ c = r

InBody(k, c, r) ==
  t.conn = k /\ t.pc = "body" =>
    \/ t.len = 4 /\ \E i \in 1..Len(sent[k]) : c = 9 * i - 4
    \/ k \in eof /\ c = r

\* What is handled is the request that was read last.
InHandler(k, c, r) ==
  Handles(k) =>
    \/ \E i \in 1..Len(sent[k]) :
         /\ c = 9 * i
         /\ t.msg = Request(k, sent[k][i], i)
         /\ \A j \in 1..Len(answers[k]) : GetMessageId(answers[k][j]) < i
    \/ /\ k \in eof /\ c = r /\ Len(sent[k]) > 0
       /\ t.msg = SubSeq(Request(k, sent[k][Len(sent[k])], Len(sent[k])), 1, Len(t.msg))

\* What was answered was read.
AnsweredRead(k, c) ==
  \A j \in 1..Len(answers[k]) :
    GetMessageId(answers[k][j]) \in Nat /\ 9 * GetMessageId(answers[k][j]) <= c

StreamAt(k, c, r) ==
  /\ Consumed(k, c, r) /\ Transmitted(k, r)
  /\ BetweenFrames(k, c, r) /\ InBody(k, c, r) /\ InHandler(k, c, r)
  /\ AnsweredRead(k, c)

StreamInv ==
  \A k \in Conns : \E r \in 0..(9 * Len(sent[k])) : \E c \in 0..r : StreamAt(k, c, r)

\* The answer that is being made is that to the request that is handled.
ReplyInv ==
  LET meta == SerialMessageMeta(REPLAY, GetMessageName(t.msg), GetMessageId(t.msg))
  IN /\ t.pc \in {"lookup", "run"} => t.reply = meta
     /\ t.pc = "send" =>
          t.reply \in {meta, SerialMessageData(GetMessageData(t.msg), meta)}

\* What a frame is made of.
LEMMA FrameParts ==
  ASSUME NEW k, NEW f, NEW n
  PROVE  LET whole == Request(k, f, n)
         IN /\ SerialerTo(4) \in Seq(UInt8) /\ Len(SerialerTo(4)) = 5
            /\ DeserialerFrom(SerialerTo(4)) = 4
            /\ Len(whole) = 4
            /\ Len(Frame(whole)) = 9
            /\ \A o \in 1..5 : Frame(whole)[o] = SerialerTo(4)[o]
            /\ \A o \in 6..9 : Frame(whole)[o] = whole[o - 5]
<1> DEFINE whole == Request(k, f, n)
           header == SerialerTo(4)
           S == UInt8 \cup {COMMAND, f, n, k}
<1>1. 4 \in UInt32
  BY SMT DEF UInt32
<1>2. Len(header) = 5 /\ DeserialerFrom(header) = 4
  BY <1>1, HeaderRoundTrip DEF TCP_HEADER_SIZE
<1>3. header \in Seq(UInt8)
  <2>1. SET_UINT32_TO_CHARS(4) \in Seq(UInt8) /\ <<TCP_HEADER_MAGIC>> \in Seq(UInt8)
    BY <1>1, Bytes DEF TCP_HEADER_MAGIC, UInt8
  <2> QED
    BY <2>1, ConcatProperties DEF SerialerTo
<1>4. whole \in Seq(S) /\ Len(whole) = 4
  BY DEF Request
<1>5. header \in Seq(S)
  BY <1>3
<1>6. Frame(whole) = header \o whole
  BY <1>4 DEF Frame
<1> HIDE DEF whole, header, S
<1>7. /\ Len(header \o whole) = Len(header) + Len(whole)
      /\ \A i \in 1..(Len(header) + Len(whole)) :
           (header \o whole)[i] = IF i <= Len(header) THEN header[i] ELSE whole[i - Len(header)]
  BY <1>4, <1>5, ConcatProperties
<1>8. Len(header \o whole) = 9
  BY <1>2, <1>4, <1>7
<1>9. \A o \in 1..5 : (header \o whole)[o] = header[o]
  BY <1>2, <1>4, <1>7
<1>10. \A o \in 6..9 : (header \o whole)[o] = whole[o - 5]
  BY <1>2, <1>4, <1>7
<1> QED
  BY <1>2, <1>3, <1>4, <1>6, <1>8, <1>9, <1>10 DEF whole, header

\* The fields of a request.
LEMMA RequestFields ==
  ASSUME NEW k, NEW f, NEW n
  PROVE  LET whole == Request(k, f, n)
         IN /\ GetMessageType(whole) = COMMAND /\ GetMessageName(whole) = f
            /\ GetMessageId(whole) = n /\ GetMessageData(whole) = k
BY DEF Request, GetMessageType, GetMessageName, GetMessageId, GetMessageData, Field

\* The fields of an answer, with a result and without.
LEMMA ReplyFields ==
  ASSUME NEW name, NEW id, NEW data
  PROVE  LET meta == SerialMessageMeta(REPLAY, name, id)
             full == SerialMessageData(data, meta)
         IN /\ GetMessageType(meta) = REPLAY /\ GetMessageType(full) = REPLAY
            /\ GetMessageName(meta) = name /\ GetMessageName(full) = name
            /\ GetMessageId(meta) = id /\ GetMessageId(full) = id
            /\ GetMessageData(meta) = Default /\ GetMessageData(full) = data
            /\ Len(meta) = 3
<1> DEFINE meta == SerialMessageMeta(REPLAY, name, id)
           full == SerialMessageData(data, meta)
           S == {REPLAY, name, id, data}
<1>1. meta = <<REPLAY, name, id>> /\ meta \in Seq(S)
  BY DEF SerialMessageMeta
<1>2. full = Append(meta, data)
  BY DEF SerialMessageData
<1> HIDE DEF meta, full
<1>3. /\ Len(meta) = 3 /\ meta[1] = REPLAY /\ meta[2] = name /\ meta[3] = id
  BY <1>1
<1>4. /\ Len(full) = 4 /\ full[1] = REPLAY /\ full[2] = name /\ full[3] = id /\ full[4] = data
  BY <1>1, <1>2, <1>3, AppendProperties
<1> QED
  BY <1>3, <1>4 DEF GetMessageType, GetMessageName, GetMessageId, GetMessageData, Field, meta, full

\* Equal sequences.
LEMMA SameSeq ==
  ASSUME NEW S, NEW T, NEW s \in Seq(S), NEW u \in Seq(T), Len(s) = Len(u),
         \A i \in 1..Len(s) : s[i] = u[i]
  PROVE  s = u
OBVIOUS

\* What recv takes and what it leaves, byte by byte.
LEMMA RecvBytes ==
  ASSUME TypeInv, t.conn \in Conns, NEW len \in Nat
  PROVE  LET s == inbox[t.conn]
             got == IF Len(s) < len THEN Len(s) ELSE len
         IN /\ Len(s) \in Nat
            /\ Got(len) \in Seq(UInt8) /\ Len(Got(len)) = got
            /\ \A i \in 1..got : Got(len)[i] = s[i]
            /\ Len(Left(len)[t.conn]) = Len(s) - got
            /\ \A i \in 1..(Len(s) - got) : Left(len)[t.conn][i] = s[i + got]
            /\ \A k \in Conns : k # t.conn => Left(len)[k] = inbox[k]
<1> DEFINE s == inbox[t.conn]
           got == IF Len(s) < len THEN Len(s) ELSE len
<1>1. s \in Seq(UInt8) /\ Len(s) \in Nat /\ inbox \in [Conns -> Seq(UInt8)]
  BY LenProperties DEF TypeInv, TypeOK
<1>2. got \in Nat /\ got <= Len(s)
  BY <1>1
<1>3. Got(len) = SubSeq(s, 1, got) /\ Got(len) \in Seq(UInt8)
  BY RecvType DEF Got, Conn
<1>4. Left(len) = [inbox EXCEPT ![t.conn] = SubSeq(s, Len(Got(len)) + 1, Len(s))]
  BY DEF Left, Conn
<1> HIDE DEF got, s
<1>5. Len(Got(len)) = got /\ \A i \in 1..got : Got(len)[i] = s[i]
  <2>1. \A i \in 1..got : s[i] \in UInt8
    BY <1>1, <1>2
  <2>2. /\ Len(SubSeq(s, 1, got)) = IF 1 <= got THEN got - 1 + 1 ELSE 0
        /\ \A i \in 1..(got - 1 + 1) : SubSeq(s, 1, got)[i] = s[1 + i - 1]
    BY <1>2, <2>1, SubSeqProperties
  <2>3. got - 1 + 1 = got /\ \A i \in 1..got : 1 + i - 1 = i
    BY <1>2
  <2> QED
    BY <1>2, <1>3, <2>2, <2>3
<1>6. Left(len)[t.conn] = SubSeq(s, got + 1, Len(s))
  BY <1>1, <1>4, <1>5
<1>7. \A i \in (got + 1)..Len(s) : s[i] \in UInt8
  BY <1>1, <1>2
<1>8. /\ Len(SubSeq(s, got + 1, Len(s))) = Len(s) - got
      /\ \A i \in 1..(Len(s) - got) : SubSeq(s, got + 1, Len(s))[i] = s[i + got]
  BY <1>1, <1>2, <1>7, SubSeqProperties
<1>9. \A k \in Conns : k # t.conn => Left(len)[k] = inbox[k]
  BY <1>1, <1>4
<1> QED
  BY <1>1, <1>3, <1>5, <1>6, <1>8, <1>9 DEF got, s

LEMMA PlaceBounds ==
  ASSUME NEW i \in Nat, NEW o \in 1..9
  PROVE  Place(i, o) \in Int /\ 9 * i - 9 < Place(i, o) /\ Place(i, o) <= 9 * i
BY DEF Place

-----------------------------------------------------------------------------
(* Steps that leave the bytes of a connection alone *)

SameBytes(k) ==
  /\ inbox'[k] = inbox[k] /\ out'[k] = out[k] /\ sent'[k] = sent[k]
  /\ (k \in eof' <=> k \in eof)

LEMMA TransmittedKept ==
  ASSUME NEW k, NEW r, out'[k] = out[k], sent'[k] = sent[k], k \in eof' <=> k \in eof,
         Transmitted(k, r)
  PROVE  Transmitted(k, r)'
<1>1. \A i : FrameOf(k, i)' = FrameOf(k, i)
  BY DEF FrameOf, Request
<1> QED
  BY <1>1, Zenon DEF Transmitted

LEMMA BytesKept ==
  ASSUME NEW k, NEW c \in Nat, NEW r \in Nat, SameBytes(k),
         Consumed(k, c, r), Transmitted(k, r)
  PROVE  Consumed(k, c, r)' /\ Transmitted(k, r)'
<1>1. \A i : FrameOf(k, i)' = FrameOf(k, i)
  BY DEF FrameOf, Request, SameBytes
<1>2. inbox'[k] = inbox[k] /\ out'[k] = out[k] /\ sent'[k] = sent[k]
  BY DEF SameBytes
<1>3. Consumed(k, c, r)'
  BY <1>1, <1>2, Zenon DEF Consumed, Carries
<1>4. Transmitted(k, r)'
  BY <1>2, TransmittedKept DEF SameBytes
<1> QED
  BY <1>3, <1>4

\* The polling thread stays where it is with k, leaves k, or comes to an open k.
ThreadKept(k) ==
  /\ k \in open' => k \in open
  /\ t'.conn = k /\ t'.pc = "header" =>
       (k \in open \/ (t.conn = k /\ t.pc = "header")) /\ ~(t.conn = k /\ t.pc = "body")
  /\ t.conn = k /\ t.pc = "body" => (t'.conn = k /\ t'.pc = "body") \/ k \notin open'
  /\ t'.conn = k /\ t'.pc = "body" => t.conn = k /\ t.pc = "body" /\ t'.len = t.len
  /\ Handles(k)' => Handles(k) /\ t'.msg = t.msg

LEMMA StreamKept ==
  ASSUME NEW k, NEW c \in Nat, NEW r \in Nat, StreamAt(k, c, r),
         SameBytes(k), answers'[k] = answers[k], ThreadKept(k)
  PROVE  StreamAt(k, c, r)'
<1>1. Consumed(k, c, r)' /\ Transmitted(k, r)'
  BY BytesKept DEF StreamAt
<1>2. BetweenFrames(k, c, r)'
  BY DEF StreamAt, BetweenFrames, ThreadKept, SameBytes
<1>3. InBody(k, c, r)'
  BY DEF StreamAt, InBody, ThreadKept, SameBytes
<1>4. InHandler(k, c, r)'
  <2>1. \A i : Request(k, sent'[k][i], i) = Request(k, sent[k][i], i)
    BY DEF SameBytes
  <2> QED
    BY <2>1 DEF StreamAt, InHandler, ThreadKept, SameBytes, Request
<1>5. AnsweredRead(k, c)'
  BY DEF StreamAt, AnsweredRead
<1> QED
  BY <1>1, <1>2, <1>3, <1>4, <1>5 DEF StreamAt

\* The bounds of the two positions.
LEMMA StreamPositions ==
  ASSUME TypeInv, StreamInv, NEW k \in Conns
  PROVE  /\ Len(sent[k]) \in Nat
         /\ \E r \in Nat, c \in Nat : c <= r /\ r <= 9 * Len(sent[k]) /\ StreamAt(k, c, r)
<1>1. Len(sent[k]) \in Nat
  BY LenProperties DEF TypeInv, TypeOK
<1>2. PICK r \in 0..(9 * Len(sent[k])) : \E c \in 0..r : StreamAt(k, c, r)
  BY DEF StreamInv
<1>3. PICK c \in 0..r : StreamAt(k, c, r)
  BY <1>2
<1> QED
  BY <1>1, <1>3

LEMMA StreamNext ==
  ASSUME \A k \in Conns : \E r \in Nat, c \in Nat :
           c <= r /\ r <= 9 * Len(sent'[k]) /\ StreamAt(k, c, r)',
         \A k \in Conns : Len(sent'[k]) \in Nat
  PROVE  StreamInv'
<1> SUFFICES ASSUME NEW k \in Conns
             PROVE  (\E r \in 0..(9 * Len(sent[k])) : \E c \in 0..r : StreamAt(k, c, r))'
  BY DEF StreamInv
<1>1. PICK r \in Nat, c \in Nat : c <= r /\ r <= 9 * Len(sent'[k]) /\ StreamAt(k, c, r)'
  OBVIOUS
<1>2. r \in 0..(9 * Len(sent'[k])) /\ c \in 0..r
  BY <1>1
<1> QED
  BY <1>1, <1>2

\* Every connection is left alone.
LEMMA AllKept ==
  ASSUME TypeInv, StreamInv, UNCHANGED <<inbox, out, sent, eof, answers>>,
         \A k \in Conns : ThreadKept(k)
  PROVE  StreamInv'
<1>1. ASSUME NEW k \in Conns
      PROVE  \E r \in Nat, c \in Nat : c <= r /\ r <= 9 * Len(sent'[k]) /\ StreamAt(k, c, r)'
  <2>1. PICK r \in Nat, c \in Nat : c <= r /\ r <= 9 * Len(sent[k]) /\ StreamAt(k, c, r)
    BY StreamPositions
  <2>2. SameBytes(k)
    BY DEF SameBytes
  <2>3. StreamAt(k, c, r)'
    BY <2>1, <2>2, StreamKept
  <2> QED
    BY <2>1, <2>3
<1>2. \A k \in Conns : Len(sent'[k]) \in Nat
  BY StreamPositions
<1> QED
  BY <1>1, <1>2, StreamNext

\* The application's steps, and those of the polling thread that read nothing.
LEMMA StreamApp == TypeInv /\ StreamInv /\ AppStep => StreamInv'
<1> SUFFICES ASSUME TypeInv, StreamInv, AppStep PROVE StreamInv'
  OBVIOUS
<1>1. UNCHANGED <<inbox, out, sent, eof, answers, t>> /\ open' \subseteq open
  BY DEF AppStep, ReadLine, EntryInit, EntryStart, EntryStop, EntryDeinit, EntryMethods, peerVars,
         loopVars
<1>2. \A k \in Conns : ThreadKept(k)
  BY <1>1 DEF ThreadKept, Handles
<1> QED
  BY <1>1, <1>2, AllKept

LEMMA StreamQuiet ==
  TypeInv /\ StreamInv /\ (EpollWait \/ NextEvent \/ HandleData \/ Lookup \/ Run) => StreamInv'
<1> SUFFICES ASSUME TypeInv, StreamInv, EpollWait \/ NextEvent \/ HandleData \/ Lookup \/ Run
             PROVE  StreamInv'
  OBVIOUS
<1>1. UNCHANGED <<inbox, out, sent, eof, answers>> /\ open' \subseteq open
  BY DEF EpollWait, NextEvent, HandleData, Lookup, Run, peerVars, loopVars
<1>t. t \in Locals /\ CallbackDone.pc = "scan" /\ Idle.pc = "wait"
  BY DEF TypeInv, TypeOK, Locals, CallbackDone, Idle
<1>2. ASSUME NEW k \in Conns PROVE ThreadKept(k)
  <2>1. CASE EpollWait
    BY <1>1, <1>t, <2>1 DEF EpollWait, ThreadKept, Handles
  <2>2. CASE NextEvent
    <3>1. t.pc = "scan"
      BY <2>2 DEF NextEvent
    <3>2. \/ t' = Idle \/ t' = t
          \/ \E j \in open : t' = [t EXCEPT !.pc = "header", !.conn = j]
      BY <2>2 DEF NextEvent
    <3>3. \A j \in open' : j \in open
      BY <1>1
    <3>4. CASE t' = t \/ t' = Idle
      BY <1>1, <1>t, <3>1, <3>3, <3>4 DEF ThreadKept, Handles
    <3>5. ASSUME NEW j \in open, t' = [t EXCEPT !.pc = "header", !.conn = j]
          PROVE  ThreadKept(k)
      <4>1. t'.pc = "header" /\ t'.conn = j
        BY <1>t, <3>5 DEF Locals
      <4> QED
        BY <1>1, <3>1, <3>3, <3>5, <4>1 DEF ThreadKept, Handles
    <3> QED
      BY <3>2, <3>4, <3>5
  <2>3. CASE HandleData
    BY <1>1, <1>t, <2>3 DEF HandleData, ThreadKept, Handles, Locals
  <2>4. CASE Lookup
    BY <1>1, <1>t, <2>4 DEF Lookup, ThreadKept, Handles, Locals
  <2>5. CASE Run
    BY <1>1, <1>t, <2>5 DEF Run, ThreadKept, Handles, Locals
  <2> QED
    BY <2>1, <2>2, <2>3, <2>4, <2>5
<1> QED
  BY <1>1, <1>2, AllKept

\* All connections but one are left alone.
LEMMA OneMoves ==
  ASSUME TypeInv, StreamInv, NEW k \in Conns,
         \A j \in Conns \ {k} : SameBytes(j) /\ answers'[j] = answers[j] /\ ThreadKept(j),
         Len(sent'[k]) \in Nat,
         \E r \in Nat, c \in Nat : c <= r /\ r <= 9 * Len(sent'[k]) /\ StreamAt(k, c, r)'
  PROVE  StreamInv'
<1>1. ASSUME NEW j \in Conns
      PROVE  /\ Len(sent'[j]) \in Nat
             /\ \E r \in Nat, c \in Nat : c <= r /\ r <= 9 * Len(sent'[j]) /\ StreamAt(j, c, r)'
  <2>1. CASE j = k
    BY <2>1
  <2>2. CASE j # k
    <3>1. PICK r \in Nat, c \in Nat : c <= r /\ r <= 9 * Len(sent[j]) /\ StreamAt(j, c, r)
      BY StreamPositions
    <3>2. StreamAt(j, c, r)'
      BY <2>2, <3>1, StreamKept
    <3>3. sent'[j] = sent[j] /\ Len(sent[j]) \in Nat
      BY <2>2, StreamPositions DEF SameBytes
    <3> QED
      BY <3>1, <3>2, <3>3
  <2> QED
    BY <2>1, <2>2
<1> QED
  BY <1>1, StreamNext

-----------------------------------------------------------------------------
(* The steps of the peers *)

LEMMA StreamConnect ==
  ASSUME TypeInv, StreamInv, NEW k \in Conns, Connect(k)
  PROVE  StreamInv'
<1>1. PICK r \in Nat, c \in Nat : c <= r /\ r <= 9 * Len(sent[k]) /\ StreamAt(k, c, r)
  BY StreamPositions
<1>2. /\ UNCHANGED <<inbox, out, sent, eof, answers, t>> /\ open' = open \cup {k}
      /\ sent[k] = <<>>
  BY DEF Connect, Fresh, peerVars, loopVars
<1>3. \A j \in Conns \ {k} : SameBytes(j) /\ answers'[j] = answers[j] /\ ThreadKept(j)
  BY <1>2 DEF SameBytes, ThreadKept, Handles
<1>4. c = 0 /\ Len(sent'[k]) = 0
  <2>1. Len(sent[k]) = 0
    BY <1>2
  <2> QED
    BY <1>1, <1>2, <2>1
<1>5. StreamAt(k, c, r)'
  <2>1. Consumed(k, c, r)' /\ Transmitted(k, r)'
    BY <1>1, <1>2, BytesKept DEF SameBytes, StreamAt
  <2>2. BetweenFrames(k, c, r)'
    <3>1. 0 \in 0..Len(sent'[k]) /\ c = 9 * 0
      BY <1>4
    <3> QED
      BY <3>1 DEF BetweenFrames
  <2>3. InBody(k, c, r)' /\ InHandler(k, c, r)' /\ AnsweredRead(k, c)'
    BY <1>1, <1>2 DEF StreamAt, InBody, InHandler, AnsweredRead, Handles, Request
  <2> QED
    BY <2>1, <2>2, <2>3 DEF StreamAt
<1> QED
  BY <1>1, <1>2, <1>3, <1>4, <1>5, OneMoves

LEMMA StreamPeerSend ==
  ASSUME TypeInv, StreamInv, NEW k \in Conns, NEW f \in Names, PeerSend(k, f)
  PROVE  StreamInv'
<1> DEFINE n == Len(sent[k])
<1>1. PICK r \in Nat, c \in Nat : c <= r /\ r <= 9 * n /\ StreamAt(k, c, r)
  BY StreamPositions
<1>t. /\ out \in [Conns -> Seq(UInt8)] /\ sent \in [Conns -> Seq(Names)]
      /\ n \in Nat /\ sent[k] \in Seq(Names)
  BY LenProperties DEF TypeInv, TypeOK
<1>2. /\ UNCHANGED <<inbox, eof, answers, t, open>>
      /\ k \notin eof /\ out[k] = <<>>
      /\ out' = [out EXCEPT ![k] = Frame(Request(k, f, n + 1))]
      /\ sent' = [sent EXCEPT ![k] = Append(sent[k], f)]
  BY DEF PeerSend, loopVars
<1>3. \A j \in Conns \ {k} : SameBytes(j) /\ answers'[j] = answers[j] /\ ThreadKept(j)
  BY <1>t, <1>2 DEF SameBytes, ThreadKept, Handles
<1>4. /\ Len(sent'[k]) = n + 1
      /\ \A i \in 1..n : sent'[k][i] = sent[k][i]
      /\ sent'[k][n + 1] = f
  <2>1. sent'[k] = Append(sent[k], f)
    BY <1>t, <1>2
  <2> QED
    BY <1>t, <2>1, AppendProperties
<1>5. /\ \A i \in 1..n : FrameOf(k, i)' = FrameOf(k, i)
      /\ \A i : i = n + 1 => FrameOf(k, i)' = Frame(Request(k, f, i))
  BY <1>4 DEF FrameOf, Request
<1>6. r = 9 * n
  <2>1. Len(out[k]) = 0 /\ Len(out[k]) = 9 * n - r
    BY <1>1, <1>2 DEF StreamAt, Transmitted
  <2> QED
    BY <1>1, <1>t, <2>1
<1>7. out'[k] = Frame(Request(k, f, n + 1)) /\ Len(out'[k]) = 9
  BY <1>t, <1>2, FrameParts
<1>a. Len(inbox[k]) = r - c
  BY <1>1 DEF StreamAt, Consumed, Carries
<1>b. \A i \in 1..n : \A o \in 1..9 :
        c < Place(i, o) /\ Place(i, o) <= r =>
          inbox[k][Place(i, o) - c] = FrameOf(k, i)[o]
  BY <1>1 DEF StreamAt, Consumed, Carries
<1> HIDE DEF n
<1>8. Consumed(k, c, r)'
  <2>1. ASSUME NEW i \in 1..(n + 1), NEW o \in 1..9, c < Place(i, o), Place(i, o) <= r
        PROVE  inbox'[k][Place(i, o) - c] = FrameOf(k, i)'[o]
    <3>0. i \in Nat /\ Place(i, o) \in Int /\ 9 * i - 9 < Place(i, o) /\ Place(i, o) <= 9 * i
      <4>1. i \in Nat
        BY <1>t
      <4> QED
        BY <4>1, PlaceBounds
    <3>1. i \in 1..n
      BY <1>t, <1>6, <2>1, <3>0
    <3> QED
      BY <1>2, <1>5, <1>b, <2>1, <3>1, Zenon
  <2> QED
    BY <1>2, <1>4, <1>a, <2>1 DEF Consumed, Carries
<1>9. Transmitted(k, r)'
  <2>1. ASSUME NEW i \in 1..(n + 1), NEW o \in 1..9, r < Place(i, o)
        PROVE  out'[k][Place(i, o) - r] = FrameOf(k, i)'[o]
    <3>0. i \in Nat /\ Place(i, o) \in Int /\ 9 * i - 9 < Place(i, o) /\ Place(i, o) <= 9 * i
      <4>1. i \in Nat
        BY <1>t
      <4> QED
        BY <4>1, PlaceBounds
    <3>1. i = n + 1
      BY <1>t, <1>6, <2>1, <3>0
    <3>2. Place(i, o) - r = o
      BY <1>t, <1>6, <3>1 DEF Place
    <3>3. FrameOf(k, i)' = Frame(Request(k, f, n + 1))
      BY <1>5, <3>1
    <3> QED
      BY <1>7, <3>2, <3>3
  <2>2. 9 * (n + 1) <= r + 9 /\ 9 = 9 * (n + 1) - r
    BY <1>t, <1>6
  <2> QED
    BY <1>2, <1>4, <1>7, <2>1, <2>2 DEF Transmitted
<1>10. BetweenFrames(k, c, r)' /\ InBody(k, c, r)'
  <2>1. 0..n \subseteq 0..(n + 1) /\ 1..n \subseteq 1..(n + 1)
    BY <1>t
  <2>2. BetweenFrames(k, c, r)'
    BY <1>1, <1>2, <1>4, <2>1 DEF StreamAt, BetweenFrames, n
  <2>3. InBody(k, c, r)'
    BY <1>1, <1>2, <1>4, <2>1 DEF StreamAt, InBody, n
  <2> QED
    BY <2>2, <2>3
<1>11. InHandler(k, c, r)' /\ AnsweredRead(k, c)'
  <2>1. 1..n \subseteq 1..(n + 1)
    BY <1>t
  <2>2. \A i \in 1..n : Request(k, sent'[k][i], i) = Request(k, sent[k][i], i)
    BY <1>4
  <2>3. InHandler(k, c, r)'
    <3> SUFFICES ASSUME Handles(k)'
                 PROVE  \E i \in 1..Len(sent'[k]) :
                          /\ c = 9 * i
                          /\ t'.msg = Request(k, sent'[k][i], i)
                          /\ \A j \in 1..Len(answers'[k]) : GetMessageId(answers'[k][j]) < i
      BY DEF InHandler, Request
    <3>1. Handles(k)
      BY <1>2 DEF Handles
    <3>2. PICK i \in 1..n :
            /\ c = 9 * i
            /\ t.msg = Request(k, sent[k][i], i)
            /\ \A j \in 1..Len(answers[k]) : GetMessageId(answers[k][j]) < i
      BY <1>1, <1>2, <3>1 DEF StreamAt, InHandler, n
    <3> QED
      BY <1>2, <1>4, <2>1, <2>2, <3>2
  <2> QED
    BY <1>1, <1>2, <2>3 DEF StreamAt, AnsweredRead
<1>12. StreamAt(k, c, r)'
  BY <1>8, <1>9, <1>10, <1>11 DEF StreamAt
<1>13. Len(sent'[k]) \in Nat /\ r <= 9 * Len(sent'[k])
  BY <1>t, <1>4, <1>6
<1> QED
  BY <1>1, <1>3, <1>12, <1>13, OneMoves

LEMMA StreamTransmit ==
  ASSUME TypeInv, StreamInv, NEW k \in Conns, Transmit(k)
  PROVE  StreamInv'
<1> DEFINE n == Len(sent[k])
<1>1. PICK r \in Nat, c \in Nat : c <= r /\ r <= 9 * n /\ StreamAt(k, c, r)
  BY StreamPositions
<1>t. /\ out \in [Conns -> Seq(UInt8)] /\ inbox \in [Conns -> Seq(UInt8)]
      /\ n \in Nat /\ out[k] \in Seq(UInt8) /\ inbox[k] \in Seq(UInt8)
      /\ Len(out[k]) \in Nat /\ Len(inbox[k]) \in Nat
  BY LenProperties DEF TypeInv, TypeOK
<1>2. PICK len \in 1..Len(out[k]) :
        /\ inbox' = [inbox EXCEPT ![k] = inbox[k] \o SubSeq(out[k], 1, len)]
        /\ out' = [out EXCEPT ![k] = SubSeq(out[k], len + 1, Len(out[k]))]
  BY DEF Transmit
<1>3. UNCHANGED <<sent, eof, answers, t, open>> /\ k \notin eof
  BY DEF Transmit, loopVars
<1>4. \A j \in Conns \ {k} : SameBytes(j) /\ answers'[j] = answers[j] /\ ThreadKept(j)
  BY <1>t, <1>2, <1>3 DEF SameBytes, ThreadKept, Handles
<1>o. /\ 9 * n <= r + 9 /\ Len(out[k]) = 9 * n - r /\ Len(inbox[k]) = r - c
      /\ \A i \in 1..n : \A o \in 1..9 :
           r < Place(i, o) => out[k][Place(i, o) - r] = FrameOf(k, i)[o]
      /\ \A i \in 1..n : \A o \in 1..9 :
           c < Place(i, o) /\ Place(i, o) <= r =>
             inbox[k][Place(i, o) - c] = FrameOf(k, i)[o]
  BY <1>1, <1>3 DEF StreamAt, Consumed, Carries, Transmitted
<1>f. \A i : FrameOf(k, i)' = FrameOf(k, i)
  BY <1>3 DEF FrameOf, Request
<1> HIDE DEF n
<1> DEFINE front == SubSeq(out[k], 1, len)
           rest == SubSeq(out[k], len + 1, Len(out[k]))
           both == inbox[k] \o front
<1>5. len \in Nat /\ len >= 1 /\ len <= Len(out[k])
  BY <1>t
<1>6. front \in Seq(UInt8) /\ Len(front) = len /\ \A i \in 1..len : front[i] = out[k][i]
  <2>1. \A i \in 1..len : out[k][i] \in UInt8
    BY <1>t, <1>5
  <2> HIDE DEF front
  <2>2. /\ front \in Seq(UInt8) /\ Len(front) = IF 1 <= len THEN len - 1 + 1 ELSE 0
        /\ \A i \in 1..(len - 1 + 1) : front[i] = out[k][1 + i - 1]
    BY <1>5, <2>1, SubSeqProperties DEF front
  <2>3. len - 1 + 1 = len /\ \A i \in 1..len : 1 + i - 1 = i
    BY <1>5
  <2> QED
    BY <1>5, <2>2, <2>3
<1>7. /\ Len(rest) = Len(out[k]) - len
      /\ \A i \in 1..(Len(out[k]) - len) : rest[i] = out[k][i + len]
  <2>1. \A i \in (len + 1)..Len(out[k]) : out[k][i] \in UInt8
    BY <1>t, <1>5
  <2> QED
    BY <1>t, <1>5, <2>1, SubSeqProperties
<1>8. /\ Len(both) = Len(inbox[k]) + len
      /\ \A i \in 1..(Len(inbox[k]) + len) :
           both[i] = IF i <= Len(inbox[k]) THEN inbox[k][i] ELSE out[k][i - Len(inbox[k])]
  <2> HIDE DEF front
  <2>1. /\ Len(both) = Len(inbox[k]) + Len(front)
        /\ \A i \in 1..(Len(inbox[k]) + Len(front)) :
             both[i] = IF i <= Len(inbox[k]) THEN inbox[k][i] ELSE front[i - Len(inbox[k])]
    BY <1>t, <1>6, ConcatProperties
  <2> QED
    BY <1>t, <1>5, <1>6, <2>1
<1>9. inbox'[k] = both /\ out'[k] = rest
  BY <1>t, <1>2
<1> HIDE DEF front, rest, both
<1>10. Consumed(k, c, r + len)'
  <2>1. ASSUME NEW i \in 1..n, NEW o \in 1..9, c < Place(i, o), Place(i, o) <= r + len
        PROVE  both[Place(i, o) - c] = FrameOf(k, i)[o]
    <3> DEFINE x == Place(i, o)
    <3>0. x \in Int /\ c < x /\ x <= r + len
      <4>1. i \in Nat /\ i <= n
        BY <1>t
      <4>2. x \in Int /\ 9 * i - 9 < x /\ x <= 9 * i
        BY <4>1, PlaceBounds
      <4> HIDE DEF x
      <4> QED
        BY <1>t, <2>1, <4>1, <4>2 DEF x
    <3>a. r < x => out[k][x - r] = FrameOf(k, i)[o]
      BY <1>o, Zenon
    <3>b. c < x /\ x <= r => inbox[k][x - c] = FrameOf(k, i)[o]
      BY <1>o, Zenon
    <3>c. SUFFICES both[x - c] = FrameOf(k, i)[o]
      OBVIOUS
    <3> HIDE DEF x
    <3>1. x - c \in 1..(Len(inbox[k]) + len)
      BY <1>1, <1>5, <1>o, <3>0
    <3>2. CASE x <= r
      BY <1>1, <1>8, <1>o, <3>0, <3>1, <3>2, <3>b
    <3>3. CASE x > r
      <4>1. x - c > Len(inbox[k]) /\ x - c - Len(inbox[k]) = x - r
        BY <1>1, <1>o, <3>0, <3>3
      <4>2. both[x - c] = out[k][x - c - Len(inbox[k])]
        BY <1>1, <1>8, <1>t, <3>0, <3>1, <4>1
      <4> QED
        BY <3>0, <3>3, <3>a, <4>1, <4>2
    <3> QED
      BY <1>1, <3>0, <3>2, <3>3
  <2>2. Len(both) = r + len - c
    BY <1>1, <1>5, <1>8, <1>o
  <2>3. Len(inbox'[k]) = r + len - c /\ Len(sent'[k]) = n
    BY <1>3, <1>9, <2>2 DEF n
  <2>4. ASSUME NEW i \in 1..n, NEW o \in 1..9, c < Place(i, o) /\ Place(i, o) <= r + len
        PROVE  inbox'[k][Place(i, o) - c] = FrameOf(k, i)'[o]
    BY <1>9, <1>f, <2>1, <2>4
  <2>5. \A i \in 1..n : \A o \in 1..9 :
          c < Place(i, o) /\ Place(i, o) <= r + len =>
            inbox'[k][Place(i, o) - c] = FrameOf(k, i)'[o]
    BY <2>4
  <2> QED
    BY <2>3, <2>5 DEF Consumed, Carries
<1>11. Transmitted(k, r + len)'
  <2>1. ASSUME NEW i \in 1..n, NEW o \in 1..9, r + len < Place(i, o)
        PROVE  rest[Place(i, o) - (r + len)] = FrameOf(k, i)[o]
    <3> DEFINE x == Place(i, o)
    <3>0. x \in Int /\ r + len < x /\ x <= 9 * n
      <4>1. i \in Nat /\ i <= n
        BY <1>t
      <4>2. x \in Int /\ 9 * i - 9 < x /\ x <= 9 * i
        BY <4>1, PlaceBounds
      <4> HIDE DEF x
      <4> QED
        BY <1>t, <2>1, <4>1, <4>2 DEF x
    <3>a. r < x => out[k][x - r] = FrameOf(k, i)[o]
      BY <1>o, Zenon
    <3>c. SUFFICES rest[x - (r + len)] = FrameOf(k, i)[o]
      OBVIOUS
    <3> HIDE DEF x
    <3>1. x - (r + len) \in 1..(Len(out[k]) - len) /\ x - (r + len) + len = x - r /\ r < x
      BY <1>1, <1>5, <1>o, <1>t, <3>0
    <3>2. rest[x - (r + len)] = out[k][x - (r + len) + len]
      BY <1>7, <3>1
    <3> QED
      BY <3>1, <3>2, <3>a
  <2>2. Len(rest) = 9 * n - (r + len) /\ 9 * n <= r + len + 9
    BY <1>1, <1>5, <1>7, <1>o, <1>t
  <2>3. /\ Len(out'[k]) = 9 * n - (r + len) /\ Len(sent'[k]) = n /\ 9 * n <= r + len + 9
        /\ k \notin eof'
    BY <1>3, <1>9, <2>2 DEF n
  <2>4. ASSUME NEW i \in 1..n, NEW o \in 1..9, r + len < Place(i, o)
        PROVE  out'[k][Place(i, o) - (r + len)] = FrameOf(k, i)'[o]
    BY <1>9, <1>f, <2>1, <2>4
  <2> QED
    BY <2>3, <2>4, Zenon DEF Transmitted
<1>12. BetweenFrames(k, c, r + len)' /\ InBody(k, c, r + len)'
  BY <1>1, <1>3 DEF StreamAt, BetweenFrames, InBody
<1>13. InHandler(k, c, r + len)' /\ AnsweredRead(k, c)'
  BY <1>1, <1>3 DEF StreamAt, InHandler, AnsweredRead, Handles, Request
<1>14. StreamAt(k, c, r + len)'
  BY <1>10, <1>11, <1>12, <1>13 DEF StreamAt
<1>15. r + len \in Nat /\ c <= r + len /\ r + len <= 9 * n /\ sent'[k] = sent[k]
  BY <1>1, <1>3, <1>5, <1>o, <1>t
<1> QED
  BY <1>1, <1>4, <1>14, <1>15, <1>t, OneMoves DEF n

LEMMA StreamPeerClose ==
  ASSUME TypeInv, StreamInv, NEW k \in Conns, PeerClose(k)
  PROVE  StreamInv'
<1>1. PICK r \in Nat, c \in Nat : c <= r /\ r <= 9 * Len(sent[k]) /\ StreamAt(k, c, r)
  BY StreamPositions
<1>2. /\ UNCHANGED <<inbox, sent, answers, t, open>> /\ eof' = eof \cup {k} /\ k \notin eof
      /\ out' = [out EXCEPT ![k] = <<>>] /\ out \in [Conns -> Seq(UInt8)]
  BY DEF PeerClose, loopVars, TypeInv, TypeOK
<1>3. \A j \in Conns \ {k} : SameBytes(j) /\ answers'[j] = answers[j] /\ ThreadKept(j)
  BY <1>2 DEF SameBytes, ThreadKept, Handles
<1>4. \A i : FrameOf(k, i)' = FrameOf(k, i)
  BY <1>2 DEF FrameOf, Request
<1>5. Consumed(k, c, r)'
  <2>1. Consumed(k, c, r) /\ inbox'[k] = inbox[k] /\ sent'[k] = sent[k]
    BY <1>1, <1>2 DEF StreamAt
  <2> QED
    BY <1>4, <2>1, Zenon DEF Consumed, Carries
<1>6. Transmitted(k, r)'
  BY <1>1, <1>2 DEF StreamAt, Transmitted
<1>7. BetweenFrames(k, c, r)' /\ InBody(k, c, r)' /\ AnsweredRead(k, c)'
  BY <1>1, <1>2 DEF StreamAt, BetweenFrames, InBody, AnsweredRead
<1>8. InHandler(k, c, r)'
  BY <1>1, <1>2 DEF StreamAt, InHandler, Handles, Request
<1>9. StreamAt(k, c, r)'
  BY <1>5, <1>6, <1>7, <1>8 DEF StreamAt
<1>10. Len(sent'[k]) \in Nat
  BY <1>2, StreamPositions
<1> QED
  BY <1>1, <1>2, <1>3, <1>9, <1>10, OneMoves

-----------------------------------------------------------------------------
(* The steps that read *)

LEMMA CallbackDoneFields ==
  CallbackDone.pc = "scan" /\ CallbackDone.conn = 0
BY DEF CallbackDone, Idle

\* A step of the connection that is read leaves the others alone.
LEMMA OthersKept ==
  ASSUME TypeInv, t.conn \in Conns, NEW len \in Nat,
         inbox' = inbox \/ inbox' = Left(len),
         UNCHANGED <<out, sent, eof>>, open' \subseteq open,
         t' = CallbackDone \/ t'.conn = t.conn
  PROVE  \A j \in Conns \ {t.conn} : SameBytes(j) /\ ThreadKept(j)
<1> SUFFICES ASSUME NEW j \in Conns, j # t.conn PROVE SameBytes(j) /\ ThreadKept(j)
  OBVIOUS
<1>1. inbox'[j] = inbox[j]
  BY RecvBytes
<1>2. SameBytes(j)
  BY <1>1 DEF SameBytes
<1>3. ThreadKept(j)
  BY CallbackDoneFields DEF ThreadKept, Handles
<1> QED
  BY <1>2, <1>3

\* Reading moves the first position on.
LEMMA ReadMovesOn ==
  ASSUME TypeInv, NEW k \in Conns, t.conn = k, NEW c \in Nat, NEW r \in Nat, c <= r,
         Consumed(k, c, r), Transmitted(k, r), AnsweredRead(k, c),
         NEW len \in Nat, inbox' = Left(len), UNCHANGED <<out, sent, eof, answers>>,
         NEW got, got = IF r - c < len THEN r - c ELSE len, NEW d, d = c + got
  PROVE  /\ Consumed(k, d, r)' /\ Transmitted(k, r)' /\ AnsweredRead(k, d)'
         /\ Got(len) \in Seq(UInt8) /\ Len(Got(len)) = got
         /\ Carries(k, c, d, Got(len))
<1> DEFINE n == Len(sent[k])
           s == inbox[k]
           left == Left(len)[k]
<1>1. Len(s) = r - c
  BY DEF Consumed, Carries
<1>2. /\ Got(len) \in Seq(UInt8) /\ Len(Got(len)) = got
      /\ \A i \in 1..got : Got(len)[i] = s[i]
      /\ Len(left) = r - c - got
      /\ \A i \in 1..(r - c - got) : left[i] = s[i + got]
  <2> DEFINE g == IF Len(s) < len THEN Len(s) ELSE len
  <2>1. /\ Got(len) \in Seq(UInt8) /\ Len(Got(len)) = g
        /\ \A i \in 1..g : Got(len)[i] = s[i]
        /\ Len(left) = Len(s) - g
        /\ \A i \in 1..(Len(s) - g) : left[i] = s[i + g]
    BY RecvBytes
  <2>2. g = got
    BY <1>1
  <2> HIDE DEF g, left, s
  <2> QED
    BY <1>1, <2>1, <2>2
<1>3. \A i \in 1..n : \A o \in 1..9 :
        c < Place(i, o) /\ Place(i, o) <= r => s[Place(i, o) - c] = FrameOf(k, i)[o]
  BY Zenon DEF Consumed, Carries
<1>4. got \in Nat /\ got <= r - c /\ n \in Nat
  BY LenProperties DEF TypeInv, TypeOK
<1>5. inbox'[k] = left
  OBVIOUS
<1>6. \A i : FrameOf(k, i)' = FrameOf(k, i)
  BY DEF FrameOf, Request
<1>7. AnsweredRead(k, d)'
  BY <1>4 DEF AnsweredRead
<1>8. Transmitted(k, r)'
  <2>1. out'[k] = out[k] /\ sent'[k] = sent[k] /\ eof' = eof
    OBVIOUS
  <2> QED
    BY <2>1, TransmittedKept
<1> HIDE DEF n, s, left
<1>9. ASSUME NEW i \in 1..n, NEW o \in 1..9
      PROVE  /\ c < Place(i, o) /\ Place(i, o) <= c + got =>
                  Got(len)[Place(i, o) - c] = FrameOf(k, i)[o]
             /\ c + got < Place(i, o) /\ Place(i, o) <= r =>
                  left[Place(i, o) - (c + got)] = FrameOf(k, i)[o]
  <2> DEFINE x == Place(i, o)
  <2>1. x \in Int
    <3>1. i \in Nat
      BY <1>4
    <3> QED
      BY <3>1, PlaceBounds
  <2>2. c < x /\ x <= r => s[x - c] = FrameOf(k, i)[o]
    BY <1>3, Zenon
  <2> HIDE DEF x
  <2>3. ASSUME c < x, x <= c + got PROVE Got(len)[x - c] = FrameOf(k, i)[o]
    <3>1. x - c \in 1..got /\ x <= r
      BY <1>4, <2>1, <2>3
    <3> QED
      BY <1>2, <2>2, <2>3, <3>1
  <2>4. ASSUME c + got < x, x <= r PROVE left[x - (c + got)] = FrameOf(k, i)[o]
    <3>1. x - (c + got) \in 1..(r - c - got) /\ x - (c + got) + got = x - c /\ c < x
      BY <1>4, <2>1, <2>4
    <3>2. left[x - (c + got)] = s[x - (c + got) + got]
      BY <1>2, <3>1
    <3> QED
      BY <2>2, <2>4, <3>1, <3>2
  <2> QED
    BY <2>3, <2>4 DEF x
<1>10. Consumed(k, d, r)'
  <2>1. Len(inbox'[k]) = r - (c + got) /\ Len(sent'[k]) = n
    BY <1>2, <1>4, <1>5 DEF n
  <2>2. \A i \in 1..n : \A o \in 1..9 :
          c + got < Place(i, o) /\ Place(i, o) <= r =>
            inbox'[k][Place(i, o) - (c + got)] = FrameOf(k, i)'[o]
    BY <1>5, <1>6, <1>9
  <2> QED
    BY <2>1, <2>2 DEF Consumed, Carries
<1>11. Carries(k, c, d, Got(len))
  BY <1>9 DEF Carries, n
<1> QED
  BY <1>2, <1>7, <1>8, <1>10, <1>11

LEMMA StreamHeader == TypeInv /\ StreamInv /\ RecvHeader => StreamInv'
<1> SUFFICES ASSUME TypeInv, StreamInv, RecvHeader PROVE StreamInv'
  OBVIOUS
<1>k. PICK k \in Conns : k = t.conn
  BY DEF RecvHeader, TypeInv, ConnIsSet, Pcs
<1> DEFINE n == Len(sent[k])
<1>t. /\ t \in Locals /\ t.pc = "header"
      /\ UNCHANGED <<out, sent, eof, answers>>
  BY DEF RecvHeader, TypeInv, TypeOK, Locals, peerVars
<1>5. PICK len \in Nat : len = TCP_HEADER_SIZE /\ len = 5
  BY DEF TCP_HEADER_SIZE
<1>3. CASE RecvWaits(len)
  <2>1. UNCHANGED <<t, open, inbox>>
    BY <1>3 DEF RecvWaits
  <2>2. \A j \in Conns : ThreadKept(j)
    BY <1>t, <2>1 DEF ThreadKept, Handles
  <2> QED
    BY <1>t, <2>1, <2>2, AllKept
<1>1. CASE RecvFails
  <2>1. k \notin open /\ t' = CallbackDone /\ UNCHANGED <<open, inbox>>
    BY <1>1, <1>k DEF RecvFails, Conn
  <2>2. \A j \in Conns : ThreadKept(j)
    BY <1>k, <1>t, <2>1, CallbackDoneFields DEF ThreadKept, Handles
  <2> QED
    BY <1>t, <2>1, <2>2, AllKept
<1>2. ASSUME RecvReady(len),
             IF Got(len) = <<>> THEN CloseEvent
             ELSE /\ t' = [t EXCEPT !.pc = "body", !.len = DeserialerFrom(Got(len))]
                  /\ UNCHANGED open,
             inbox' = Left(len)
      PROVE  StreamInv'
  <2>1. PICK r \in Nat, c \in Nat : c <= r /\ r <= 9 * n /\ StreamAt(k, c, r)
    BY <1>t, StreamPositions
  <2>n. n \in Nat /\ k \in Conns
    BY <1>t, StreamPositions
  <2> DEFINE taken == IF r - c < len THEN r - c ELSE len
  <2>0. taken \in Nat
    BY <2>1
  <2>g. PICK got \in Nat : got = taken
    BY <2>0
  <2>d. PICK d \in Nat : d = c + got
    BY <2>g
  <2>2. /\ Consumed(k, d, r)' /\ Transmitted(k, r)' /\ AnsweredRead(k, d)'
        /\ Got(len) \in Seq(UInt8) /\ Len(Got(len)) = got
        /\ \A i \in 1..n : \A o \in 1..9 :
             c < Place(i, o) /\ Place(i, o) <= d =>
               Got(len)[Place(i, o) - c] = FrameOf(k, i)[o]
    <3>1. Consumed(k, c, r) /\ Transmitted(k, r) /\ AnsweredRead(k, c)
      BY <2>1 DEF StreamAt
    <3>2. t.conn = k /\ inbox' = Left(len)
      BY <1>k, <1>2
    <3>3. got = IF r - c < len THEN r - c ELSE len
      BY <2>g
    <3>5. TypeInv /\ UNCHANGED <<out, sent, eof, answers>> /\ c <= r
      BY <1>t, <2>1
    <3>6. /\ Consumed(k, d, r)' /\ Transmitted(k, r)' /\ AnsweredRead(k, d)'
          /\ Got(len) \in Seq(UInt8) /\ Len(Got(len)) = got
          /\ Carries(k, c, d, Got(len))
      BY <2>d, <3>1, <3>2, <3>3, <3>5, ReadMovesOn
    <3> QED
      BY <3>6 DEF Carries
  <2>3. (\E i \in 0..n : c = 9 * i) \/ (k \in eof /\ c = r)
    BY <1>k, <1>t, <2>1 DEF StreamAt, BetweenFrames
  <2>4. r - c < len => k \in eof
    BY <1>k, <1>2, <2>1 DEF RecvReady, Conn, StreamAt, Consumed, Carries
  <2>5. \/ t' = CallbackDone /\ open' = open \ {k}
        \/ /\ t' = [t EXCEPT !.pc = "body", !.len = DeserialerFrom(Got(len))]
           /\ UNCHANGED open /\ Got(len) # <<>>
    BY <1>k, <1>2 DEF CloseEvent, Conn
  <2>6. \A j \in Conns \ {k} : SameBytes(j) /\ answers'[j] = answers[j] /\ ThreadKept(j)
    <3>1. t' = CallbackDone \/ t'.conn = t.conn
      BY <1>t, <2>5 DEF Locals
    <3>2. open' \subseteq open
      BY <2>5
    <3>3. \A j \in Conns \ {k} : SameBytes(j) /\ ThreadKept(j)
      BY <1>k, <1>t, <1>2, <3>1, <3>2, OthersKept
    <3> QED
      BY <1>t, <3>3
  <2> HIDE DEF n
  <2>7. StreamAt(k, d, r)'
    <3>1. CASE t' = CallbackDone /\ open' = open \ {k}
      <4>1. t'.pc = "scan" /\ k \notin open'
        BY <3>1, CallbackDoneFields
      <4> QED
        BY <2>2, <4>1 DEF StreamAt, BetweenFrames, InBody, InHandler, Handles
    <3>2. CASE /\ t' = [t EXCEPT !.pc = "body", !.len = DeserialerFrom(Got(len))]
               /\ UNCHANGED open /\ Got(len) # <<>>
      <4>1. t'.conn = k /\ t'.pc = "body" /\ t'.len = DeserialerFrom(Got(len))
        BY <1>k, <1>t, <3>2 DEF Locals
      <4>2. BetweenFrames(k, d, r)' /\ InHandler(k, d, r)'
        BY <4>1 DEF BetweenFrames, InHandler, Handles
      <4>3. InBody(k, d, r)'
        <5>1. CASE r - c < 5
          <6>1. k \in eof' /\ d = r
            BY <1>t, <1>5, <2>1, <2>4, <2>g, <2>d, <5>1
          <6> QED
            BY <6>1 DEF InBody
        <5>2. CASE r - c >= 5
          <6>1. PICK i \in 0..n : c = 9 * i
            BY <2>1, <2>3, <5>2
          <6>2. i + 1 \in 1..n /\ got = 5 /\ d = 9 * (i + 1) - 4
            BY <1>5, <2>1, <2>n, <2>g, <2>d, <5>2, <6>1
          <6>3. ASSUME NEW o \in 1..5
                PROVE  Got(len)[o] = SerialerTo(4)[o]
            <7> DEFINE x == Place(i + 1, o)
            <7>1. o \in 1..9 /\ x - c = o /\ c < x /\ x <= d
              BY <2>1, <2>n, <2>d, <6>1, <6>2 DEF Place
            <7>2. c < x /\ x <= d => Got(len)[x - c] = FrameOf(k, i + 1)[o]
              BY <2>2, <6>2, <7>1, Zenon
            <7>3. FrameOf(k, i + 1)[o] = SerialerTo(4)[o]
              BY FrameParts DEF FrameOf
            <7> QED
              BY <7>1, <7>2, <7>3
          <6>4. Got(len) = SerialerTo(4)
            <7>1. SerialerTo(4) \in Seq(UInt8) /\ Len(SerialerTo(4)) = 5
              BY FrameParts
            <7>2. Got(len) \in Seq(UInt8) /\ Len(Got(len)) = 5
              BY <2>2, <6>2
            <7> QED
              BY <6>3, <7>1, <7>2, SameSeq
          <6>5. t'.len = 4
            BY <4>1, <6>4, FrameParts
          <6>6. i + 1 \in 1..Len(sent'[k])
            BY <1>t, <6>2 DEF n
          <6> QED
            BY <6>2, <6>5, <6>6 DEF InBody
        <5> QED
          BY <2>1, <5>1, <5>2
      <4> QED
        BY <2>2, <4>2, <4>3 DEF StreamAt
    <3> QED
      BY <2>5, <3>1, <3>2
  <2>8. d \in Nat /\ d <= r /\ sent'[k] = sent[k]
    BY <1>t, <2>1, <2>g, <2>d
  <2> QED
    BY <2>n, <2>1, <2>6, <2>7, <2>8, OneMoves DEF n
<1> QED
  BY <1>1, <1>2, <1>3, <1>5 DEF RecvHeader

LEMMA StreamBody == TypeInv /\ StreamInv /\ RecvBody => StreamInv'
<1> SUFFICES ASSUME TypeInv, StreamInv, RecvBody PROVE StreamInv'
  OBVIOUS
<1>k. PICK k \in Conns : k = t.conn
  BY DEF RecvBody, TypeInv, ConnIsSet, Pcs
<1>n. PICK n \in Nat : n = Len(sent[k])
  BY StreamPositions
<1>len. PICK len \in Nat : len = t.len
  BY DEF TypeInv, TypeOK
<1>t. /\ t \in Locals /\ t.pc = "body"
      /\ UNCHANGED <<out, sent, eof, answers>>
  BY DEF RecvBody, TypeInv, TypeOK, Locals, peerVars
<1>3. CASE RecvWaits(len)
  <2>1. UNCHANGED <<t, open, inbox>>
    BY <1>3 DEF RecvWaits
  <2>2. \A j \in Conns : ThreadKept(j)
    BY <1>t, <2>1 DEF ThreadKept, Handles
  <2> QED
    BY <1>t, <2>1, <2>2, AllKept
<1>1. CASE RecvFails
  <2>1. k \notin open /\ t' = CallbackDone /\ UNCHANGED <<open, inbox>>
    BY <1>1, <1>k DEF RecvFails, Conn
  <2>2. \A j \in Conns : ThreadKept(j)
    BY <1>k, <1>t, <2>1, CallbackDoneFields DEF ThreadKept, Handles
  <2> QED
    BY <1>t, <2>1, <2>2, AllKept
<1>2. ASSUME RecvReady(len),
             IF Got(len) = <<>> THEN CloseEvent
             ELSE t' = [t EXCEPT !.pc = "handle", !.msg = Got(len)] /\ UNCHANGED open,
             inbox' = Left(len)
      PROVE  StreamInv'
  <2>1. PICK r \in Nat, c \in Nat : c <= r /\ r <= 9 * n /\ StreamAt(k, c, r)
    BY <1>n, StreamPositions
  <2> DEFINE taken == IF r - c < len THEN r - c ELSE len
  <2>0. taken \in Nat
    BY <2>1
  <2>g. PICK got \in Nat : got = taken
    BY <2>0
  <2>d. PICK d \in Nat : d = c + got
    BY <2>g
  <2>2. /\ Consumed(k, d, r)' /\ Transmitted(k, r)' /\ AnsweredRead(k, d)'
        /\ Got(len) \in Seq(UInt8) /\ Len(Got(len)) = got
        /\ \A i \in 1..n : \A o \in 1..9 :
             c < Place(i, o) /\ Place(i, o) <= d =>
               Got(len)[Place(i, o) - c] = FrameOf(k, i)[o]
    <3>1. Consumed(k, c, r) /\ Transmitted(k, r) /\ AnsweredRead(k, c)
      BY <2>1 DEF StreamAt
    <3>2. t.conn = k /\ inbox' = Left(len)
      BY <1>k, <1>2
    <3>3. got = IF r - c < len THEN r - c ELSE len
      BY <2>g
    <3>5. TypeInv /\ UNCHANGED <<out, sent, eof, answers>> /\ c <= r
      BY <1>t, <2>1
    <3>6. /\ Consumed(k, d, r)' /\ Transmitted(k, r)' /\ AnsweredRead(k, d)'
          /\ Got(len) \in Seq(UInt8) /\ Len(Got(len)) = got
          /\ Carries(k, c, d, Got(len))
      BY <2>d, <3>1, <3>2, <3>3, <3>5, ReadMovesOn
    <3> QED
      BY <1>n, <3>6 DEF Carries
  <2>3. \/ len = 4 /\ \E i \in 1..n : c = 9 * i - 4
        \/ k \in eof /\ c = r
    BY <1>k, <1>n, <1>len, <1>t, <2>1 DEF StreamAt, InBody
  <2>4. r - c < len => k \in eof
    BY <1>k, <1>2, <2>1 DEF RecvReady, Conn, StreamAt, Consumed, Carries
  <2>5. \/ t' = CallbackDone /\ open' = open \ {k}
        \/ /\ t' = [t EXCEPT !.pc = "handle", !.msg = Got(len)]
           /\ UNCHANGED open /\ Got(len) # <<>>
    BY <1>k, <1>2 DEF CloseEvent, Conn
  <2>6. \A j \in Conns \ {k} : SameBytes(j) /\ answers'[j] = answers[j] /\ ThreadKept(j)
    <3>1. t' = CallbackDone \/ t'.conn = t.conn
      BY <1>t, <2>5 DEF Locals
    <3>2. open' \subseteq open
      BY <2>5
    <3>3. \A j \in Conns \ {k} : SameBytes(j) /\ ThreadKept(j)
      BY <1>k, <1>t, <1>2, <3>1, <3>2, OthersKept
    <3> QED
      BY <1>t, <3>3
  <2>7. StreamAt(k, d, r)'
    <3>1. CASE t' = CallbackDone /\ open' = open \ {k}
      <4>1. t'.pc = "scan" /\ k \notin open'
        BY <3>1, CallbackDoneFields
      <4> QED
        BY <2>2, <4>1 DEF StreamAt, BetweenFrames, InBody, InHandler, Handles
    <3>2. CASE /\ t' = [t EXCEPT !.pc = "handle", !.msg = Got(len)]
               /\ UNCHANGED open /\ Got(len) # <<>>
      <4>1. t'.conn = k /\ t'.pc = "handle" /\ t'.msg = Got(len)
        BY <1>k, <1>t, <3>2 DEF Locals
      <4>2. InBody(k, d, r)'
        BY <4>1 DEF InBody
      <4>g. got > 0
        <5>1. Len(Got(len)) # 0
          BY <2>2, <3>2
        <5> QED
          BY <2>2, <5>1
      <4>3. PICK i \in 1..n : c = 9 * i - 4
        BY <2>1, <2>3, <2>g, <4>g
      <4>4. len = 4
        BY <2>1, <2>3, <2>g, <4>g
      <4> DEFINE whole == Request(k, sent[k][i], i)
      <4>w. /\ whole = Request(k, sent'[k][i], i) /\ Len(whole) = 4
            /\ \A o \in 6..9 : FrameOf(k, i)[o] = whole[o - 5]
        BY <1>t, FrameParts DEF FrameOf
      <4>s. \E S : whole \in Seq(S)
        <5>1. whole \in Seq({COMMAND, sent[k][i], i, k})
          BY DEF Request
        <5> QED
          BY <5>1
      <4> HIDE DEF whole
      <4>5. ASSUME NEW o \in 1..got
            PROVE  Got(len)[o] = whole[o]
        <5> DEFINE x == Place(i, o + 5)
        <5>1. o \in Int /\ o + 5 \in 1..9 /\ o + 5 \in 6..9 /\ o + 5 - 5 = o
          BY <2>1, <2>g, <4>4
        <5>2. x - c = o /\ c < x /\ x <= d
          BY <1>n, <2>d, <4>3, <5>1 DEF Place
        <5>3. c < x /\ x <= d => Got(len)[x - c] = FrameOf(k, i)[o + 5]
          BY <2>2, <5>1, Zenon
        <5> QED
          BY <4>w, <5>1, <5>2, <5>3
      <4>6. CASE r - c >= 4
        <5>1. got = 4 /\ d = 9 * i /\ i \in 0..n
          BY <1>n, <2>1, <2>g, <2>d, <4>3, <4>4, <4>6
        <5>2. Got(len) = whole
          <6>1. PICK S : whole \in Seq(S)
            BY <4>s
          <6>2. Len(whole) = Len(Got(len)) /\ \A o \in 1..Len(whole) : Got(len)[o] = whole[o]
            BY <2>2, <4>w, <4>5, <5>1
          <6> QED
            BY <2>2, <6>1, <6>2, SameSeq
        <5>3. BetweenFrames(k, d, r)'
          BY <1>n, <1>t, <5>1 DEF BetweenFrames
        <5>4. ASSUME NEW j \in 1..Len(answers[k]) PROVE GetMessageId(answers[k][j]) < i
          <6>1. GetMessageId(answers[k][j]) \in Nat /\ 9 * GetMessageId(answers[k][j]) <= c
            BY <2>1 DEF StreamAt, AnsweredRead
          <6> QED
            BY <4>3, <6>1
        <5>5. InHandler(k, d, r)'
          <6>1. t'.msg = Request(k, sent'[k][i], i) /\ i \in 1..Len(sent'[k])
            BY <1>n, <1>t, <4>1, <4>w, <5>2
          <6>2. \A j \in 1..Len(answers'[k]) : GetMessageId(answers'[k][j]) < i
            BY <1>t, <5>4
          <6> QED
            BY <5>1, <6>1, <6>2 DEF InHandler, Request
        <5> QED
          BY <2>2, <4>2, <5>3, <5>5 DEF StreamAt
      <4>7. CASE r - c < 4
        <5>1. k \in eof' /\ d = r /\ got < 4 /\ got = r - c
          BY <1>t, <2>1, <2>4, <2>g, <2>d, <4>4, <4>7
        <5>2. i = n
          <6>1. 9 * n <= r + 9
            BY <1>n, <2>1 DEF StreamAt, Transmitted
          <6> QED
            BY <1>n, <2>1, <4>3, <4>7, <6>1
        <5>3. BetweenFrames(k, d, r)'
          BY <5>1 DEF BetweenFrames
        <5>4. Got(len) = SubSeq(whole, 1, got)
          <6>1. PICK S : whole \in Seq(S)
            BY <4>s
          <6>2. SubSeq(whole, 1, got) \in Seq(S)
            BY <4>w, <5>1, <6>1, PartIsSeq
          <6>3. \A o \in 1..got : whole[o] \in S
            BY <4>w, <5>1, <6>1
          <6>4. /\ Len(SubSeq(whole, 1, got)) = got
                /\ \A o \in 1..got : SubSeq(whole, 1, got)[o] = whole[o]
            <7>1. /\ Len(SubSeq(whole, 1, got)) = IF 1 <= got THEN got - 1 + 1 ELSE 0
                  /\ \A o \in 1..(got - 1 + 1) : SubSeq(whole, 1, got)[o] = whole[1 + o - 1]
              BY <6>3, SubSeqProperties
            <7>2. got - 1 + 1 = got /\ \A o \in 1..got : 1 + o - 1 = o
              OBVIOUS
            <7> QED
              BY <4>g, <7>1, <7>2
          <6> QED
            BY <2>2, <4>5, <6>2, <6>4, SameSeq
        <5>5. InHandler(k, d, r)'
          <6>1. Len(sent'[k]) > 0 /\ Len(sent'[k]) = i
            BY <1>n, <1>t, <5>2
          <6>2. t'.msg = SubSeq(Request(k, sent'[k][i], i), 1, Len(t'.msg))
            BY <2>2, <4>1, <4>w, <5>4
          <6> QED
            BY <5>1, <6>1, <6>2 DEF InHandler, Request
        <5> QED
          BY <2>2, <4>2, <5>3, <5>5 DEF StreamAt
      <4> QED
        BY <2>1, <4>6, <4>7
    <3> QED
      BY <2>5, <3>1, <3>2
  <2>8. c + got <= r /\ d <= r /\ sent'[k] = sent[k]
    BY <1>t, <2>1, <2>g, <2>d
  <2>9. d <= r /\ r <= 9 * Len(sent'[k]) /\ Len(sent'[k]) \in Nat
    BY <1>n, <2>1, <2>8
  <2> QED
    BY <2>6, <2>7, <2>9, OneMoves
<1> QED
  BY <1>1, <1>2, <1>3, <1>len DEF RecvBody

-----------------------------------------------------------------------------
(* Answers *)

LEMMA ReplyStep == TypeInv /\ ReplyInv /\ [Next]_vars => ReplyInv'
<1> SUFFICES ASSUME TypeInv, ReplyInv, [Next]_vars PROVE ReplyInv'
  OBVIOUS
<1>t. t \in Locals /\ CallbackDone.pc = "scan" /\ Idle.pc = "wait"
  BY DEF TypeInv, TypeOK, Locals, CallbackDone, Idle
<1>1. CASE UNCHANGED t
  BY <1>1 DEF ReplyInv
<1>2. CASE EpollWait \/ NextEvent \/ RecvHeader \/ RecvBody \/ Send
  <2>1. t'.pc \notin {"lookup", "run", "send"}
    <3>1. CASE EpollWait \/ NextEvent
      BY <1>t, <3>1 DEF EpollWait, NextEvent, Locals
    <3>2. CASE RecvHeader
      BY <1>t, <3>2 DEF RecvHeader, CloseEvent, RecvFails, RecvWaits, Locals
    <3>3. CASE RecvBody
      BY <1>t, <3>3 DEF RecvBody, CloseEvent, RecvFails, RecvWaits, Locals
    <3>4. CASE Send
      BY <1>t, <3>4 DEF Send
    <3> QED
      BY <1>2, <3>1, <3>2, <3>3, <3>4
  <2> QED
    BY <2>1 DEF ReplyInv
<1>3. CASE HandleData
  BY <1>t, <1>3 DEF HandleData, ReplyInv, Locals
<1>4. CASE Lookup
  <2>1. t'.msg = t.msg /\ t'.reply = t.reply /\ t'.pc \in {"run", "send"} /\ t.pc = "lookup"
    BY <1>t, <1>4 DEF Lookup, Locals
  <2> QED
    BY <2>1 DEF ReplyInv
<1>5. CASE Run
  <2>1. t.pc = "run"
    BY <1>5 DEF Run
  <2>2. \/ t' = CallbackDone
        \/ t' = [t EXCEPT !.pc = "send", !.reply = SerialMessageData(GetMessageData(t.msg), t.reply)]
    BY <1>5 DEF Run, Exec
  <2>3. \/ t'.pc = "scan"
        \/ /\ t'.pc = "send" /\ t'.msg = t.msg
           /\ t'.reply = SerialMessageData(GetMessageData(t.msg), t.reply)
    BY <1>t, <2>2 DEF Locals
  <2> QED
    BY <2>1, <2>3 DEF ReplyInv
<1>6. CASE AppStep \/ PeerStep \/ UNCHANGED vars
  <2>1. UNCHANGED t
    BY <1>6 DEF AppStep, ReadLine, EntryInit, EntryStart, EntryStop, EntryDeinit, EntryMethods,
                PeerStep, Connect, PeerSend, Transmit, PeerClose, vars, loopVars
  <2> QED
    BY <1>1, <2>1
<1> QED
  BY <1>2, <1>3, <1>4, <1>5, <1>6 DEF Next, PollStep

\* What a connection was answered.
AnswersTo(k) ==
  /\ \A i \in 1..Len(answers[k]) :
       LET a == answers[k][i]
       IN /\ GetMessageType(a) = REPLAY
          /\ GetMessageId(a) \in 1..Len(sent[k])
          /\ GetMessageName(a) = sent[k][GetMessageId(a)]
          /\ GetMessageData(a) \in {k, Default}
          /\ GetMessageData(a) = Default => Len(a) = 3
  /\ \A i, j \in 1..Len(answers[k]) :
       i < j => GetMessageId(answers[k][i]) < GetMessageId(answers[k][j])

LEMMA AnswersSplit == AnswersInOrder <=> \A k \in Conns : AnswersTo(k)
BY DEF AnswersInOrder, AnswersTo

\* What Send may add to the answers of k, of whose bytes c were read.
AnswerGiven(k, c) ==
  \/ answers'[k] = answers[k]
  \/ \E a : \E i \in 1..Len(sent[k]) :
       /\ answers'[k] = Append(answers[k], a)
       /\ GetMessageType(a) = REPLAY /\ GetMessageId(a) = i
       /\ GetMessageName(a) = sent[k][i]
       /\ GetMessageData(a) \in {k, Default}
       /\ GetMessageData(a) = Default => Len(a) = 3
       /\ \A j \in 1..Len(answers[k]) : GetMessageId(answers[k][j]) < i
       /\ 9 * i <= c

\* The thread sends the answer to the request it read last, or none.
LEMMA SentAnswer ==
  ASSUME TypeInv, StreamInv, ReplyInv, Send
  PROVE  \E k \in Conns, r \in Nat, c \in Nat :
           /\ c <= r /\ r <= 9 * Len(sent[k]) /\ StreamAt(k, c, r)
           /\ k = t.conn /\ t.pc = "send" /\ t' = CallbackDone
           /\ \A j \in Conns \ {k} : answers'[j] = answers[j]
           /\ UNCHANGED <<inbox, out, sent, eof, open>>
           /\ AnswerGiven(k, c)
<1>k. PICK k \in Conns : k = t.conn
  BY DEF Send, TypeInv, ConnIsSet, Pcs
<1>1. PICK r \in Nat, c \in Nat : c <= r /\ r <= 9 * Len(sent[k]) /\ StreamAt(k, c, r)
  BY StreamPositions
<1>2. /\ t.pc = "send" /\ t' = CallbackDone /\ UNCHANGED <<inbox, out, sent, eof, open>>
      /\ answers \in [Conns -> Seq(Body)]
  BY DEF Send, peerVars, TypeInv, TypeOK
<1>3. \/ answers' = answers
      \/ k \in open \ eof /\ answers' = [answers EXCEPT ![k] = Append(answers[k], t.reply)]
  BY <1>k DEF Send, Conn
<1>4. \A j \in Conns \ {k} : answers'[j] = answers[j]
  BY <1>2, <1>3
<1>5. ASSUME k \notin eof
      PROVE  \E i \in 1..Len(sent[k]) :
               /\ GetMessageType(t.reply) = REPLAY /\ GetMessageId(t.reply) = i
               /\ GetMessageName(t.reply) = sent[k][i]
               /\ GetMessageData(t.reply) \in {k, Default}
               /\ GetMessageData(t.reply) = Default => Len(t.reply) = 3
               /\ \A j \in 1..Len(answers[k]) : GetMessageId(answers[k][j]) < i
               /\ 9 * i <= c
  <2>1. PICK i \in 1..Len(sent[k]) :
          /\ c = 9 * i
          /\ t.msg = Request(k, sent[k][i], i)
          /\ \A j \in 1..Len(answers[k]) : GetMessageId(answers[k][j]) < i
    BY <1>k, <1>1, <1>2, <1>5 DEF StreamAt, InHandler, Handles
  <2>2. /\ GetMessageName(t.msg) = sent[k][i] /\ GetMessageId(t.msg) = i
        /\ GetMessageData(t.msg) = k
    BY <2>1, RequestFields
  <2> DEFINE meta == SerialMessageMeta(REPLAY, sent[k][i], i)
             full == SerialMessageData(k, meta)
  <2>3. t.reply \in {meta, full}
    BY <1>2, <2>2 DEF ReplyInv
  <2>4. /\ GetMessageType(meta) = REPLAY /\ GetMessageType(full) = REPLAY
        /\ GetMessageName(meta) = sent[k][i] /\ GetMessageName(full) = sent[k][i]
        /\ GetMessageId(meta) = i /\ GetMessageId(full) = i
        /\ GetMessageData(meta) = Default /\ GetMessageData(full) = k
        /\ Len(meta) = 3
    BY ReplyFields
  <2>5. k # Default
    BY CallsAssumption DEF Default
  <2> HIDE DEF meta, full
  <2>6. 9 * i <= c
    BY <2>1
  <2> QED
    BY <2>1, <2>3, <2>4, <2>5, <2>6
<1>6. \/ answers'[k] = answers[k]
      \/ k \notin eof /\ answers'[k] = Append(answers[k], t.reply)
  BY <1>2, <1>3
<1>7. AnswerGiven(k, c)
  BY <1>5, <1>6, Zenon DEF AnswerGiven
<1> QED
  BY <1>k, <1>1, <1>2, <1>4, <1>7

\* An answer behind those that were sent before.
LEMMA OneMoreAnswer ==
  ASSUME TypeInv, NEW k \in Conns, NEW a, answers'[k] = Append(answers[k], a)
  PROVE  /\ Len(answers[k]) \in Nat /\ Len(answers'[k]) = Len(answers[k]) + 1
         /\ \A j \in 1..Len(answers[k]) : answers'[k][j] = answers[k][j]
         /\ answers'[k][Len(answers[k]) + 1] = a
<1> DEFINE S == Body \cup {a}
<1>1. answers[k] \in Seq(Body)
  BY DEF TypeInv, TypeOK
<1>2. answers[k] \in Seq(S) /\ a \in S /\ Len(answers[k]) \in Nat
  BY <1>1
<1> HIDE DEF S
<1> QED
  BY <1>2, AppendProperties

LEMMA StreamSend == TypeInv /\ StreamInv /\ ReplyInv /\ Send => StreamInv'
<1> SUFFICES ASSUME TypeInv, StreamInv, ReplyInv, Send PROVE StreamInv'
  OBVIOUS
<1>1. PICK k \in Conns, r \in Nat, c \in Nat :
        /\ c <= r /\ r <= 9 * Len(sent[k]) /\ StreamAt(k, c, r)
        /\ k = t.conn /\ t.pc = "send" /\ t' = CallbackDone
        /\ \A j \in Conns \ {k} : answers'[j] = answers[j]
        /\ UNCHANGED <<inbox, out, sent, eof, open>>
        /\ AnswerGiven(k, c)
  BY SentAnswer, Zenon
<1>2. \A j \in Conns : SameBytes(j) /\ ThreadKept(j)
  BY <1>1, CallbackDoneFields DEF SameBytes, ThreadKept, Handles
<1>3. StreamAt(k, c, r)'
  <2>1. Consumed(k, c, r)' /\ Transmitted(k, r)'
    BY <1>1, <1>2, BytesKept DEF StreamAt
  <2>2. /\ BetweenFrames(k, c, r)' /\ InBody(k, c, r)' /\ InHandler(k, c, r)'
    BY <1>1, CallbackDoneFields DEF StreamAt, BetweenFrames, InBody, InHandler, Handles
  <2>3. AnsweredRead(k, c)'
    <3>1. CASE answers'[k] = answers[k]
      BY <1>1, <3>1 DEF StreamAt, AnsweredRead
    <3>2. ASSUME NEW a, NEW i \in 1..Len(sent[k]), answers'[k] = Append(answers[k], a),
                 GetMessageId(a) = i, 9 * i <= c
          PROVE  AnsweredRead(k, c)'
      <4>2. /\ Len(answers[k]) \in Nat /\ Len(answers'[k]) = Len(answers[k]) + 1
            /\ \A j \in 1..Len(answers[k]) : answers'[k][j] = answers[k][j]
            /\ answers'[k][Len(answers[k]) + 1] = a
        BY <3>2, OneMoreAnswer
      <4>3. GetMessageId(a) \in Nat
        BY <3>2, StreamPositions
      <4>4. \A j \in 1..Len(answers[k]) :
              GetMessageId(answers[k][j]) \in Nat /\ 9 * GetMessageId(answers[k][j]) <= c
        BY <1>1 DEF StreamAt, AnsweredRead
      <4>5. ASSUME NEW j \in 1..Len(answers'[k])
            PROVE  GetMessageId(answers'[k][j]) \in Nat /\ 9 * GetMessageId(answers'[k][j]) <= c
        <5>1. CASE j = Len(answers[k]) + 1
          BY <3>2, <4>2, <4>3, <5>1
        <5>2. CASE j \in 1..Len(answers[k])
          BY <4>2, <4>4, <5>2
        <5> QED
          BY <4>2, <4>5, <5>1, <5>2
      <4> QED
        BY <4>5 DEF AnsweredRead, GetMessageId
    <3> QED
      BY <1>1, <3>1, <3>2 DEF AnswerGiven
  <2> QED
    BY <2>1, <2>2, <2>3 DEF StreamAt
<1> QED
  BY <1>1, <1>2, <1>3, StreamPositions, OneMoves

LEMMA AnswersKept ==
  ASSUME NEW k, AnswersTo(k), answers'[k] = answers[k],
         Len(sent[k]) \in Nat, Len(sent'[k]) \in Nat, Len(sent[k]) <= Len(sent'[k]),
         \A i \in 1..Len(sent[k]) : sent'[k][i] = sent[k][i]
  PROVE  AnswersTo(k)'
<1>1. ASSUME NEW i \in 1..Len(answers'[k])
      PROVE  LET a == answers'[k][i]
             IN /\ GetMessageType(a) = REPLAY
                /\ GetMessageId(a) \in 1..Len(sent'[k])
                /\ GetMessageName(a) = sent'[k][GetMessageId(a)]
                /\ GetMessageData(a) \in {k, Default}
                /\ GetMessageData(a) = Default => Len(a) = 3
  <2>1. PICK a : a = answers[k][i] /\ a = answers'[k][i]
    OBVIOUS
  <2>2. /\ GetMessageType(a) = REPLAY
        /\ GetMessageId(a) \in 1..Len(sent[k])
        /\ GetMessageName(a) = sent[k][GetMessageId(a)]
        /\ GetMessageData(a) \in {k, Default}
        /\ GetMessageData(a) = Default => Len(a) = 3
    BY <2>1, Zenon DEF AnswersTo
  <2>3. GetMessageId(a) \in 1..Len(sent'[k])
    BY <2>2
  <2>4. GetMessageName(a) = sent'[k][GetMessageId(a)]
    BY <2>2
  <2> QED
    BY <2>1, <2>2, <2>3, <2>4, Zenon
<1>2. \A i, j \in 1..Len(answers'[k]) :
        i < j => GetMessageId(answers'[k][i]) < GetMessageId(answers'[k][j])
  BY Zenon DEF AnswersTo
<1> QED
  BY <1>1, <1>2, Zenon DEF AnswersTo

LEMMA AnswersStep ==
  TypeInv /\ StreamInv /\ ReplyInv /\ AnswersInOrder /\ [Next]_vars => AnswersInOrder'
<1> SUFFICES ASSUME TypeInv, StreamInv, ReplyInv, AnswersInOrder, [Next]_vars
             PROVE  \A k \in Conns : AnswersTo(k)'
  BY DEF AnswersInOrder, AnswersTo
<1>a. \A k \in Conns : AnswersTo(k)
  BY AnswersSplit
<1>n. \A k \in Conns : Len(sent[k]) \in Nat /\ sent[k] \in Seq(Names)
  BY StreamPositions DEF TypeInv, TypeOK
<1>1. CASE UNCHANGED <<sent, answers>>
  BY <1>a, <1>n, <1>1, AnswersKept
<1>2. ASSUME NEW k \in Conns, NEW f \in Names, PeerSend(k, f), NEW j \in Conns
      PROVE  AnswersTo(j)'
  <2>1. answers' = answers /\ sent' = [sent EXCEPT ![k] = Append(sent[k], f)]
    BY <1>2 DEF PeerSend, loopVars
  <2>2. sent \in [Conns -> Seq(Names)]
    BY DEF TypeInv, TypeOK
  <2>3. CASE j # k
    BY <1>a, <1>n, <2>1, <2>2, <2>3, AnswersKept
  <2>4. CASE j = k
    <3>1. sent'[k] = Append(sent[k], f)
      BY <2>1, <2>2
    <3>2. Len(sent'[k]) = Len(sent[k]) + 1 /\ \A i \in 1..Len(sent[k]) : sent'[k][i] = sent[k][i]
      BY <1>n, <3>1, AppendProperties
    <3> QED
      BY <1>a, <1>n, <2>1, <2>4, <3>2, AnswersKept
  <2> QED
    BY <2>3, <2>4
<1>3. CASE Send
  <2>1. PICK k \in Conns, c \in Nat :
          /\ \A j \in Conns \ {k} : answers'[j] = answers[j]
          /\ UNCHANGED <<inbox, out, sent, eof, open>>
          /\ AnswerGiven(k, c)
    BY <1>3, SentAnswer, Zenon
  <2>2. ASSUME NEW j \in Conns, answers'[j] = answers[j]
        PROVE  AnswersTo(j)'
    BY <1>a, <1>n, <2>1, <2>2, AnswersKept
  <2>3. ASSUME NEW a, NEW i \in 1..Len(sent[k]),
               answers'[k] = Append(answers[k], a),
               GetMessageType(a) = REPLAY, GetMessageId(a) = i, GetMessageName(a) = sent[k][i],
               GetMessageData(a) \in {k, Default}, GetMessageData(a) = Default => Len(a) = 3,
               \A j \in 1..Len(answers[k]) : GetMessageId(answers[k][j]) < i
        PROVE  AnswersTo(k)'
    <3> DEFINE len == Len(answers[k])
    <3>1. /\ len \in Nat /\ Len(answers'[k]) = len + 1
          /\ \A j \in 1..len : answers'[k][j] = answers[k][j]
          /\ answers'[k][len + 1] = a
      BY <2>3, OneMoreAnswer
    <3>2. \A j \in 1..(len + 1) : j \in 1..len \/ j = len + 1
      BY <3>1
    <3>3. sent' = sent
      BY <2>1
    <3>4. AnswersTo(k)
      BY <1>a
    <3> HIDE DEF len
    <3>5. ASSUME NEW j \in 1..(len + 1)
          PROVE  LET b == answers'[k][j]
                 IN /\ GetMessageType(b) = REPLAY
                    /\ GetMessageId(b) \in 1..Len(sent[k])
                    /\ GetMessageName(b) = sent[k][GetMessageId(b)]
                    /\ GetMessageData(b) \in {k, Default}
                    /\ GetMessageData(b) = Default => Len(b) = 3
      BY <2>3, <3>1, <3>2, <3>4 DEF AnswersTo, len
    <3>6. ASSUME NEW j \in 1..(len + 1), NEW l \in 1..(len + 1), j < l
          PROVE  GetMessageId(answers'[k][j]) < GetMessageId(answers'[k][l])
      <4>1. j \in 1..len
        BY <3>1, <3>6
      <4>2. CASE l \in 1..len
        BY <3>1, <3>4, <3>6, <4>1, <4>2 DEF AnswersTo, len
      <4>3. CASE l = len + 1
        BY <2>3, <3>1, <4>1, <4>3 DEF len
      <4> QED
        BY <3>2, <4>2, <4>3
    <3> QED
      BY <3>1, <3>3, <3>5, <3>6 DEF AnswersTo
  <2>4. AnswersTo(k)'
    BY <2>1, <2>2, <2>3, Zenon DEF AnswerGiven
  <2> QED
    BY <2>1, <2>2, <2>4
<1>4. CASE AppStep \/ (PollStep /\ ~Send) \/ UNCHANGED vars
  <2>1. UNCHANGED <<sent, answers>>
    BY <1>4 DEF AppStep, ReadLine, EntryInit, EntryStart, EntryStop, EntryDeinit, EntryMethods,
                PollStep, EpollWait, NextEvent, RecvHeader, RecvBody, HandleData, Lookup, Run,
                vars, loopVars, peerVars
  <2> QED
    BY <1>1, <2>1
<1>5. ASSUME NEW k \in Conns, Connect(k) \/ Transmit(k) \/ PeerClose(k)
      PROVE  \A j \in Conns : AnswersTo(j)'
  <2>1. UNCHANGED <<sent, answers>>
    BY <1>5 DEF Connect, Transmit, PeerClose, loopVars, peerVars
  <2> QED
    BY <1>1, <2>1
<1> QED
  BY <1>2, <1>3, <1>4, <1>5 DEF Next, PeerStep

LEMMA StreamStep == TypeInv /\ StreamInv /\ ReplyInv /\ [Next]_vars => StreamInv'
<1> SUFFICES ASSUME TypeInv, StreamInv, ReplyInv, [Next]_vars PROVE StreamInv'
  OBVIOUS
<1>1. CASE UNCHANGED vars
  <2>1. UNCHANGED <<inbox, out, sent, eof, answers>> /\ UNCHANGED <<t, open>>
    BY <1>1 DEF vars, loopVars, peerVars
  <2>2. \A k \in Conns : ThreadKept(k)
    BY <2>1 DEF ThreadKept, Handles
  <2> QED
    BY <2>1, <2>2, AllKept
<1>2. CASE PollStep
  BY <1>2, StreamQuiet, StreamHeader, StreamBody, StreamSend DEF PollStep
<1>3. CASE PeerStep
  BY <1>3, StreamConnect, StreamTransmit, StreamPeerClose, StreamPeerSend DEF PeerStep
<1> QED
  BY <1>1, <1>2, <1>3, StreamApp DEF Next

LEMMA InitialStreams == Init => StreamInv /\ ReplyInv /\ AnswersInOrder
<1> SUFFICES ASSUME Init PROVE StreamInv /\ ReplyInv /\ AnswersInOrder
  OBVIOUS
<1>1. t.pc = "wait" /\ eof = {} /\ open = {}
  BY DEF Init, Idle
<1>2. \A k \in Conns : /\ Len(sent[k]) = 0 /\ Len(inbox[k]) = 0
                       /\ Len(out[k]) = 0 /\ Len(answers[k]) = 0
  BY DEF Init
<1>3. ASSUME NEW k \in Conns PROVE StreamAt(k, 0, 0)
  <2>1. Consumed(k, 0, 0) /\ Transmitted(k, 0)
    BY <1>1, <1>2 DEF Consumed, Carries, Transmitted
  <2>2. BetweenFrames(k, 0, 0) /\ InBody(k, 0, 0) /\ InHandler(k, 0, 0) /\ AnsweredRead(k, 0)
    BY <1>1, <1>2 DEF BetweenFrames, InBody, InHandler, Handles, AnsweredRead
  <2> QED
    BY <2>1, <2>2 DEF StreamAt
<1>4. \A k \in Conns : 0 \in 0..(9 * Len(sent[k])) /\ 0 \in 0..0
  BY <1>2
<1>5. StreamInv
  BY <1>3, <1>4 DEF StreamInv
<1>6. ReplyInv
  BY <1>1 DEF ReplyInv
<1>7. AnswersInOrder
  BY <1>2 DEF AnswersInOrder
<1> QED
  BY <1>5, <1>6, <1>7

\* What the service handles is a request that this connection has sent, whole, or
\* the beginning of its last one when the peer has broken off: however the frames
\* are cut up on their way, and whenever the service is stopped.
THEOREM HandledWasSent == Spec => []RunStemsFromRequest
<1>1. TypeInv /\ StreamInv => RunStemsFromRequest
  <2> SUFFICES ASSUME TypeInv, StreamInv, t.pc \in {"handle", "lookup", "run", "send"}
               PROVE  \E n \in 1..Len(sent[Conn]) :
                        LET whole == Request(Conn, sent[Conn][n], n)
                        IN \/ t.msg = whole
                           \/ /\ Conn \in eof /\ n = Len(sent[Conn])
                              /\ t.msg = SubSeq(whole, 1, Len(t.msg))
    BY DEF RunStemsFromRequest
  <2>1. PICK k \in Conns : k = Conn
    BY DEF TypeInv, ConnIsSet, Pcs, Conn
  <2>2. PICK r \in Nat, c \in Nat : StreamAt(k, c, r)
    BY StreamPositions
  <2>3. Len(sent[k]) \in Nat
    BY StreamPositions
  <2>4. \/ \E n \in 1..Len(sent[k]) : t.msg = Request(k, sent[k][n], n)
        \/ /\ k \in eof /\ Len(sent[k]) \in 1..Len(sent[k])
           /\ t.msg = SubSeq(Request(k, sent[k][Len(sent[k])], Len(sent[k])), 1, Len(t.msg))
    BY <2>1, <2>2, <2>3 DEF StreamAt, InHandler, Handles, Conn
  <2> QED
    BY <2>1, <2>4
<1>2. TypeInv /\ StreamInv /\ ReplyInv /\ [Next]_vars => StreamInv' /\ ReplyInv'
  BY StreamStep, ReplyStep
<1> QED
  BY <1>1, <1>2, InitialType, InitialStreams, NextType, PTL DEF Spec

\* Every connection is given the answers to its own requests, in the order it sent
\* them, each at most once and with its own result, whatever is registered,
\* unregistered, stopped or broken off meanwhile.
THEOREM AnswersAreOrdered == Spec => []AnswersInOrder
<1>1. TypeInv /\ StreamInv /\ ReplyInv /\ AnswersInOrder /\ [Next]_vars
        => StreamInv' /\ ReplyInv' /\ AnswersInOrder'
  BY StreamStep, ReplyStep, AnswersStep
<1> QED
  BY <1>1, InitialType, InitialStreams, NextType, PTL DEF Spec

-----------------------------------------------------------------------------
(* What a configuration means *)

\* What find_first_of and the loops of parseLine stop at.
LEMMA FirstIndex ==
  ASSUME NEW T \in SUBSET Nat
  PROVE  /\ T = {} => FirstOf(T) = NPos
         /\ T # {} => FirstOf(T) \in T /\ \A j \in T : FirstOf(T) <= j
<1>1. CASE T = {}
  BY <1>1 DEF FirstOf
<1>2. CASE T # {}
  <2>1. \E i \in T : \A j \in T : i <= j
    BY <1>2, LeastElement
  <2>2. FirstOf(T) = CHOOSE i \in T : \A j \in T : i <= j
    BY <1>2 DEF FirstOf
  <2> QED
    BY <1>2, <2>1, <2>2
<1> QED
  BY <1>1, <1>2

LEMMA LastIndex ==
  ASSUME NEW n \in Nat, NEW T \in SUBSET (0..n)
  PROVE  /\ T = {} => LastOf(T) = NPos
         /\ T # {} => LastOf(T) \in T /\ \A j \in T : j <= LastOf(T)
<1>1. CASE T = {}
  BY <1>1 DEF LastOf
<1>2. CASE T # {}
  <2> DEFINE U == {n - j : j \in T}
  <2>1. U \in SUBSET Nat /\ U # {}
    <3>1. \A j \in T : n - j \in Nat
      OBVIOUS
    <3>2. U \in SUBSET Nat
      BY <3>1
    <3>3. \E j \in T : n - j \in U
      BY <1>2
    <3> QED
      BY <3>2, <3>3
  <2>2. PICK u \in U : \A v \in U : u <= v
    BY <2>1, LeastElement
  <2>3. PICK i \in T : u = n - i
    BY <2>2
  <2>4. \A j \in T : j <= i
    <3> TAKE j \in T
    <3>1. n - i <= n - j
      BY <2>2, <2>3
    <3> QED
      BY <3>1
  <2>5. LastOf(T) = CHOOSE k \in T : \A j \in T : j <= k
    BY <1>2 DEF LastOf
  <2> QED
    BY <1>2, <2>4, <2>5
<1> QED
  BY <1>1, <1>2

\* The characters from the m-th to the n-th are blanks.
Blank(buf, m, n) == \A i \in m..n : buf[i] = " "

\* The separator is the first "=" of the line.
Separator(buf, s) ==
  /\ s \in 1..Len(buf) /\ buf[s] = "="
  /\ \A i \in 1..(s - 1) : buf[i] # "="

NameEnd(buf, s, p) ==
  p \in 1..(s - 1) /\ buf[p] # " " /\ Blank(buf, p + 1, s - 1)

ValueBegin(buf, s, q) ==
  q \in (s + 1)..Len(buf) /\ buf[q] # " " /\ Blank(buf, s + 1, q - 1)

LEMMA LineIndexes ==
  ASSUME NEW buf \in Seq(STRING)
  PROVE  /\ Len(buf) \in Nat
         /\ Indexes(buf) \subseteq Nat
         /\ \A i : i \in Indexes(buf) <=> i + 1 \in 1..Len(buf) /\ i \in Int
         /\ \A s \in 1..Len(buf) : s - 1 \in Indexes(buf) /\ (s - 1) + 1 = s
BY DEF Indexes

LEMMA SeparatorFound ==
  ASSUME NEW buf \in Seq(STRING)
  PROVE  \/ EqualPos(buf) = NPos /\ \A i \in 1..Len(buf) : buf[i] # "="
         \/ EqualPos(buf) \in Indexes(buf) /\ Separator(buf, EqualPos(buf) + 1)
<1> DEFINE T == {i \in Indexes(buf) : buf[i + 1] = "="}
<1>1. T \in SUBSET Nat
  BY LineIndexes
<1>2. CASE T = {}
  <2>1. \A i \in 1..Len(buf) : buf[i] # "="
    <3> TAKE i \in 1..Len(buf)
    <3>1. i - 1 \in Indexes(buf) /\ (i - 1) + 1 = i
      BY LineIndexes
    <3>2. i - 1 \notin T
      BY <1>2
    <3> QED
      BY <3>1, <3>2
  <2> QED
    BY <1>1, <1>2, <2>1, FirstIndex DEF EqualPos
<1>3. CASE T # {}
  <2>1. PICK e \in T : e = EqualPos(buf) /\ \A j \in T : e <= j
    BY <1>1, <1>3, FirstIndex DEF EqualPos
  <2>2. e \in Nat /\ e + 1 \in 1..Len(buf) /\ buf[e + 1] = "="
    BY <2>1, LineIndexes
  <2>3. ASSUME NEW i \in 1..((e + 1) - 1) PROVE buf[i] # "="
    <3>1. i \in 1..Len(buf) /\ i - 1 < e
      BY <2>2
    <3>2. i - 1 \in Indexes(buf) /\ (i - 1) + 1 = i
      BY <3>1, LineIndexes
    <3>3. i - 1 \notin T
      BY <2>1, <2>2, <3>1
    <3> QED
      BY <3>2, <3>3
  <2> QED
    BY <2>1, <2>2, <2>3 DEF Separator
<1> QED
  BY <1>2, <1>3

\* Where there is a separator the name ends in front of it, or there is no name.
LEMMA NameFound ==
  ASSUME NEW buf \in Seq(STRING), Len(buf) <= NPos, NEW s, Separator(buf, s),
         EqualPos(buf) = s - 1
  PROVE  \/ KeyEnd(buf) = NPos /\ Blank(buf, 1, s - 1)
         \/ KeyEnd(buf) \in Indexes(buf) /\ NameEnd(buf, s, KeyEnd(buf) + 1)
<1>s. s \in 1..Len(buf) /\ Len(buf) \in Nat /\ NPos \in Nat
  BY ConfigAssumption, LineIndexes DEF Separator
<1>1. CASE s = 1
  <2>1. Minus1(EqualPos(buf)) = NPos
    BY <1>s, <1>1 DEF Minus1
  <2>2. NPos \notin Indexes(buf)
    BY <1>s DEF Indexes
  <2>3. KeyEnd(buf) = NPos
    BY <2>1, <2>2 DEF KeyEnd
  <2> QED
    BY <1>1, <2>3 DEF Blank
<1>2. CASE s > 1
  <2> DEFINE start == s - 2
             T == {i \in 0..start : buf[i + 1] # " "}
  <2>1. start \in Nat /\ start <= NPos /\ start \in Indexes(buf)
    BY <1>s, <1>2 DEF Indexes
  <2>2. Minus1(EqualPos(buf)) = start
    BY <1>s, <1>2, <2>1 DEF Minus1
  <2>3. KeyEnd(buf) = LastOf(T)
    BY <2>1, <2>2 DEF KeyEnd
  <2>4. CASE T = {}
    <3>1. KeyEnd(buf) = NPos
      BY <2>1, <2>3, <2>4, LastIndex
    <3>2. ASSUME NEW i \in 1..(s - 1) PROVE buf[i] = " "
      <4>1. i - 1 \in 0..start /\ (i - 1) + 1 = i
        BY <1>s
      <4> QED
        BY <2>4, <4>1
    <3> QED
      BY <3>1, <3>2 DEF Blank
  <2>5. CASE T # {}
    <3>1. PICK k \in 0..start : /\ k = KeyEnd(buf) /\ buf[k + 1] # " "
                                /\ \A j \in T : j <= k
      <4>1. LastOf(T) \in T /\ \A j \in T : j <= LastOf(T)
        BY <2>1, <2>5, LastIndex
      <4> QED
        BY <2>3, <4>1
    <3>2. \A j \in 0..start : ~(j <= k) => buf[j + 1] = " "
      BY <3>1
    <3> HIDE DEF T
    <3>3. ASSUME NEW i \in ((k + 1) + 1)..(s - 1) PROVE buf[i] = " "
      <4>1. i - 1 \in 0..start /\ (i - 1) + 1 = i /\ ~(i - 1 <= k)
        BY <1>s
      <4> QED
        BY <3>2, <4>1
    <3>4. k \in Indexes(buf) /\ k + 1 \in 1..(s - 1)
      BY <1>s DEF Indexes
    <3> QED
      BY <3>1, <3>2, <3>3, <3>4 DEF NameEnd, Blank
  <2> QED
    BY <2>4, <2>5
<1> QED
  BY <1>s, <1>1, <1>2

\* Behind it the value begins, or there is none.
LEMMA ValueFound ==
  ASSUME NEW buf \in Seq(STRING), Len(buf) <= NPos, NEW s, Separator(buf, s),
         EqualPos(buf) = s - 1
  PROVE  \/ ValueStart(buf) = NPos /\ Blank(buf, s + 1, Len(buf))
         \/ ValueStart(buf) \in Indexes(buf) /\ ValueBegin(buf, s, ValueStart(buf) + 1)
<1> DEFINE T == {i \in Indexes(buf) : i > s - 1 /\ buf[i + 1] # " "}
<1>s. s \in 1..Len(buf) /\ Len(buf) \in Nat
  BY LineIndexes DEF Separator
<1>1. T \in SUBSET Nat /\ ValueStart(buf) = FirstOf(T)
  BY LineIndexes DEF ValueStart
<1>2. CASE T = {}
  <2>1. ASSUME NEW i \in (s + 1)..Len(buf) PROVE buf[i] = " "
    <3>1. i - 1 \in Indexes(buf) /\ (i - 1) + 1 = i /\ i - 1 > s - 1
      BY <1>s DEF Indexes
    <3> QED
      BY <1>2, <3>1
  <2> QED
    BY <1>1, <1>2, <2>1, FirstIndex DEF Blank
<1>3. CASE T # {}
  <2>1. PICK v \in Indexes(buf) : /\ v = ValueStart(buf) /\ v > s - 1 /\ buf[v + 1] # " "
                                  /\ \A j \in T : v <= j
    <3>1. FirstOf(T) \in T /\ \A j \in T : FirstOf(T) <= j
      BY <1>1, <1>3, FirstIndex
    <3> QED
      BY <1>1, <3>1
  <2>a. \A j \in Indexes(buf) : j > s - 1 /\ ~(v <= j) => buf[j + 1] = " "
    BY <2>1
  <2> HIDE DEF T
  <2>2. v \in Int /\ v + 1 \in (s + 1)..Len(buf)
    <3>1. v \in 0..(Len(buf) - 1) /\ v > s - 1
      BY <2>1 DEF Indexes
    <3> QED
      BY <1>s, <3>1
  <2>3. ASSUME NEW i \in (s + 1)..((v + 1) - 1) PROVE buf[i] = " "
    <3>1. i - 1 \in Indexes(buf) /\ (i - 1) + 1 = i /\ i - 1 > s - 1 /\ ~(v <= i - 1)
      BY <1>s, <2>2 DEF Indexes
    <3> QED
      BY <2>a, <3>1
  <2> QED
    BY <2>1, <2>2, <2>3 DEF ValueBegin, Blank
<1> QED
  BY <1>2, <1>3

LEMMA WiderSeq ==
  ASSUME NEW S, NEW T, S \subseteq T, NEW s \in Seq(S)
  PROVE  s \in Seq(T)
OBVIOUS

LEMMA Repeated ==
  ASSUME NEW S, NEW c \in S, NEW n \in Nat
  PROVE  LET b == [i \in 1..n |-> c]
         IN b \in Seq(S) /\ Len(b) = n /\ \A i \in 1..n : b[i] = c
<1> DEFINE b == [i \in 1..n |-> c]
<1>1. b \in [1..n -> S] /\ DOMAIN b = 1..n /\ \A i \in 1..n : b[i] = c
  OBVIOUS
<1> HIDE DEF b
<1>4. b \in Seq(S)
  BY <1>1, SeqDef
<1>5. Len(b) = n
  BY <1>1, <1>4, LenProperties
<1> QED
  BY <1>1, <1>4, <1>5 DEF b

\* The elements of a sequence that is put together of two, one by one.
Joins(w, a, b, m, n) ==
  /\ Len(w) = m + n
  /\ \A i \in 1..m : w[i] = a[i]
  /\ \A i \in 1..n : w[m + i] = b[i]

LEMMA Joined ==
  ASSUME NEW S, NEW a \in Seq(S), NEW b \in Seq(S)
  PROVE  a \o b \in Seq(S) /\ Joins(a \o b, a, b, Len(a), Len(b))
<1>1. /\ a \o b \in Seq(S)
      /\ Len(a \o b) = Len(a) + Len(b)
      /\ \A i \in 1..(Len(a) + Len(b)) :
           (a \o b)[i] = IF i <= Len(a) THEN a[i] ELSE b[i - Len(a)]
  BY ConcatProperties
<1>2. Len(a) \in Nat /\ Len(b) \in Nat
  BY LenProperties
<1> DEFINE w == a \o b
<1> HIDE DEF w
<1>3. \A i \in 1..(Len(a) + Len(b)) : w[i] = IF i <= Len(a) THEN a[i] ELSE b[i - Len(a)]
  BY <1>1 DEF w
<1>4. ASSUME NEW i \in 1..Len(b) PROVE w[Len(a) + i] = b[i]
  <2>1. PICK j \in 1..(Len(a) + Len(b)) : j = Len(a) + i /\ ~(j <= Len(a)) /\ j - Len(a) = i
    BY <1>2
  <2>2. w[j] = b[j - Len(a)]
    BY <1>3, <2>1
  <2> QED
    BY <2>1, <2>2
<1>5. \A i \in 1..Len(a) : w[i] = a[i]
  BY <1>2, <1>3
<1> QED
  <2>1. w \in Seq(S) /\ w = a \o b /\ Len(w) = Len(a) + Len(b)
    BY <1>1 DEF w
  <2>2. Joins(w, a, b, Len(a), Len(b))
    BY <1>4, <1>5, <2>1 DEF Joins
  <2> QED
    BY <2>1, <2>2

\* What the positions are in a line of the form that defines: the name up to p, the
\* separator e at s, and from q on the value; blanks c in between.
LineForm(buf, key, value, p, s, q, c, e) ==
  /\ p = Len(key) /\ p < s /\ s < q /\ Len(buf) = q - 1 + Len(value)
  /\ \A i \in 1..p : buf[i] = key[i]
  /\ \A i \in (p + 1)..(s - 1) : buf[i] = c
  /\ buf[s] = e
  /\ \A i \in (s + 1)..(q - 1) : buf[i] = c
  /\ \A i \in 1..Len(value) : buf[q - 1 + i] = value[i]

LEMMA FormPositions ==
  ASSUME NEW S, NEW c \in S, NEW e \in S,
         NEW key \in Seq(S), NEW value \in Seq(S), NEW m \in Nat, NEW n \in Nat
  PROVE  LET blanks(k) == [i \in 1..k |-> c]
             buf == key \o blanks(m) \o <<e>> \o blanks(n) \o value
             p == Len(key)
             s == p + m + 1
             q == s + n + 1
         IN LineForm(buf, key, value, p, s, q, c, e)
<1>1. PICK a \in Seq(S) : a = [i \in 1..m |-> c] /\ Len(a) = m /\ \A i \in 1..m : a[i] = c
  BY Repeated
<1>2. PICK b \in Seq(S) : b = [i \in 1..n |-> c] /\ Len(b) = n /\ \A i \in 1..n : b[i] = c
  BY Repeated
<1>3. PICK d \in Seq(S) : d = <<e>> /\ Len(d) = 1 /\ d[1] = e
  <2>1. <<e>> \in Seq(S) /\ Len(<<e>>) = 1 /\ <<e>>[1] = e
    OBVIOUS
  <2> QED
    BY <2>1
<1>4. PICK p \in Nat, v \in Nat : p = Len(key) /\ v = Len(value)
  BY LenProperties
<1>5. PICK one \in Nat, r \in Nat, s \in Nat, q \in Nat, l \in Nat :
        one = 1 /\ r = p + m /\ s = r + one /\ l = s + n /\ q = l + 1
  <2>1. 1 \in Nat /\ p + m \in Nat /\ p + m + 1 \in Nat /\ p + m + 1 + n \in Nat
        /\ p + m + 1 + n + 1 \in Nat
    BY <1>4
  <2> QED
    BY <2>1
<1>6. PICK u \in Seq(S) : u = key \o a /\ Joins(u, key, a, p, m)
  BY <1>1, <1>4, Joined, Zenon
<1>a. Len(u) = r
  BY <1>5, <1>6 DEF Joins
<1>d. Len(d) = one
  BY <1>3, <1>5
<1>7. PICK w \in Seq(S) : w = u \o d /\ Joins(w, u, d, r, one)
  BY <1>a, <1>d, Joined, Zenon
<1>b. Len(w) = s
  BY <1>5, <1>7 DEF Joins
<1>8. PICK x \in Seq(S) : x = w \o b /\ Joins(x, w, b, s, n)
  BY <1>2, <1>b, Joined, Zenon
<1>c. Len(x) = l
  BY <1>5, <1>8 DEF Joins
<1>9. PICK y \in Seq(S) : y = x \o value /\ Joins(y, x, value, l, v)
  BY <1>4, <1>c, Joined, Zenon
<1>10. y = key \o [i \in 1..m |-> c] \o <<e>> \o [i \in 1..n |-> c] \o value
  BY <1>1, <1>2, <1>3, <1>6, <1>7, <1>8, <1>9
<1>11. \A i \in 1..p : y[i] = key[i]
  <2> TAKE i \in 1..p
  <2>1. i \in 1..r /\ i \in 1..s /\ i \in 1..l
    BY <1>4, <1>5
  <2> QED
    BY <1>6, <1>7, <1>8, <1>9, <2>1 DEF Joins
<1>12. ASSUME NEW i \in (p + 1)..(s - 1) PROVE y[i] = c
  <2>1. PICK j \in 1..m : p + j = i
    <3>1. i - p \in 1..m /\ p + (i - p) = i
      BY <1>4, <1>5
    <3> QED
      BY <3>1
  <2>2. u[i] = c
    BY <1>1, <1>6, <2>1 DEF Joins
  <2>3. i \in 1..r /\ i \in 1..s /\ i \in 1..l
    BY <1>4, <1>5
  <2> QED
    BY <1>7, <1>8, <1>9, <2>2, <2>3 DEF Joins
<1>13. y[s] = e
  <2>1. one \in 1..one /\ s \in 1..s /\ s \in 1..l
    BY <1>5
  <2>2. w[s] = d[1]
    BY <1>5, <1>7, <2>1 DEF Joins
  <2> QED
    BY <1>3, <1>8, <1>9, <2>1, <2>2 DEF Joins
<1>14. ASSUME NEW i \in (s + 1)..(q - 1) PROVE y[i] = c
  <2>1. PICK j \in 1..n : s + j = i
    <3>1. i - s \in 1..n /\ s + (i - s) = i
      BY <1>5
    <3> QED
      BY <3>1
  <2>2. x[i] = c
    BY <1>2, <1>8, <2>1 DEF Joins
  <2>3. i \in 1..l
    BY <1>5
  <2> QED
    BY <1>9, <2>2, <2>3 DEF Joins
<1>15. \A i \in 1..v : y[q - 1 + i] = value[i]
  <2>1. q - 1 = l
    BY <1>5
  <2> QED
    BY <1>9, <2>1 DEF Joins
<1>16. p < s /\ s < q /\ Len(y) = q - 1 + v
  BY <1>4, <1>5, <1>9 DEF Joins
<1>17. LineForm(y, key, value, p, s, q, c, e)
  BY <1>4, <1>11, <1>12, <1>13, <1>14, <1>15, <1>16 DEF LineForm
<1>18. s = Len(key) + m + 1 /\ q = Len(key) + m + 1 + n + 1
  BY <1>4, <1>5
<1> QED
  BY <1>4, <1>10, <1>17, <1>18

\* A line of that form is read as what it says ...
LEMMA DefinedIsRead ==
  ASSUME NEW buf \in Seq(STRING), Len(buf) <= NPos,
         NEW key \in Seq(STRING), NEW value \in Seq(STRING), Defines(buf, key, value)
  PROVE  /\ ~IsSkipped(buf) /\ KeyEnd(buf) # NPos /\ ValueStart(buf) # NPos
         /\ key = SubSeq(buf, 1, KeyEnd(buf) + 1)
         /\ value = SubSeq(buf, ValueStart(buf) + 1, Len(buf))
<1>1. PICK m \in Nat, n \in Nat : buf = key \o Blanks(m) \o <<"=">> \o Blanks(n) \o value
  <2>1. \A k \in 0..Len(buf) : k \in Nat
    OBVIOUS
  <2> QED
    BY <2>1 DEF Defines
<1>3. PICK p \in Nat, v \in Nat : p = Len(key) /\ v = Len(value) /\ p > 0 /\ v > 0
  <2>1. key # <<>> /\ value # <<>>
    BY DEF Defines
  <2> QED
    BY <2>1
<1>f. PICK s \in Nat, q \in Nat : LineForm(buf, key, value, p, s, q, " ", "=")
  <2> DEFINE S == STRING \cup {" ", "="}
  <2>1. " " \in S /\ "=" \in S /\ key \in Seq(S) /\ value \in Seq(S)
    <3>1. STRING \subseteq S /\ " " \in S /\ "=" \in S
      BY Zenon
    <3> HIDE DEF S
    <3> QED
      BY <3>1, WiderSeq
  <2> HIDE DEF S
  <2>2. LineForm(key \o Blanks(m) \o <<"=">> \o Blanks(n) \o value, key, value,
                 Len(key), Len(key) + m + 1, Len(key) + m + 1 + n + 1, " ", "=")
    BY <2>1, FormPositions, Zenon DEF Blanks
  <2>3. p + m + 1 \in Nat /\ p + m + 1 + n + 1 \in Nat
    OBVIOUS
  <2> QED
    BY <1>1, <1>3, <2>2, <2>3, Zenon
<1>2. /\ p < s /\ s < q /\ Len(buf) = q - 1 + v
      /\ \A i \in 1..p : buf[i] = key[i]
      /\ Blank(buf, p + 1, s - 1) /\ buf[s] = "=" /\ Blank(buf, s + 1, q - 1)
      /\ \A i \in 1..v : buf[q - 1 + i] = value[i]
  BY <1>3, <1>f, Zenon DEF LineForm, Blank
<1>4. /\ key[1] # "#" /\ key[p] # " " /\ value[1] # " "
      /\ \A i \in 1..p : key[i] # "="
  BY <1>3 DEF Defines
<1>5. NPos \in Nat
  BY ConfigAssumption
<1>6. ~IsSkipped(buf)
  <2>1. buf[1] = key[1] /\ buf # <<>>
    BY <1>2, <1>3
  <2> QED
    BY <1>4, <2>1 DEF IsSkipped
<1>7. Separator(buf, s)
  <2>1. ASSUME NEW i \in 1..(s - 1) PROVE buf[i] # "="
    <3>1. CASE i \in 1..p
      BY <1>2, <1>3, <1>4, <3>1
    <3>2. CASE i \in (p + 1)..(s - 1)
      <4>1. buf[i] = " "
        BY <1>2, <1>3, <3>2 DEF Blank
      <4> QED
        BY <4>1
    <3> QED
      BY <3>1, <3>2
  <2>2. s \in 1..Len(buf)
    BY <1>2, <1>3
  <2> QED
    BY <1>2, <2>1, <2>2 DEF Separator
<1>8. EqualPos(buf) = s - 1
  <2>1. ~(\A i \in 1..Len(buf) : buf[i] # "=")
    BY <1>7 DEF Separator
  <2>2. PICK e \in Nat : e = EqualPos(buf) /\ Separator(buf, e + 1)
    BY <2>1, SeparatorFound, LineIndexes
  <2>3. ~(e + 1 < s) /\ ~(s < e + 1)
    BY <1>7, <2>2 DEF Separator
  <2> QED
    BY <2>2, <2>3
<1>e. /\ 1 \in 1..p /\ p \in 1..p /\ p \in 1..(s - 1)
      /\ 1 \in 1..v /\ q - 1 + 1 = q /\ q \in (s + 1)..Len(buf)
      /\ \A k \in Int : /\ k < p => p \in (k + 1)..(s - 1)
                        /\ q < k => q \in (s + 1)..(k - 1)
  BY <1>2, <1>3
<1>g. buf[p] # " " /\ buf[q] # " "
  <2>1. buf[p] = key[p] /\ buf[q - 1 + 1] = value[1]
    BY <1>2, <1>e, Zenon
  <2> QED
    BY <1>4, <1>e, <2>1
<1>9. KeyEnd(buf) = p - 1
  <2>2. ~Blank(buf, 1, s - 1)
    BY <1>e, <1>g DEF Blank
  <2>3. PICK k \in Nat : KeyEnd(buf) = k /\ NameEnd(buf, s, k + 1)
    BY <1>7, <1>8, <2>2, NameFound, LineIndexes
  <2>a. PICK j \in Nat : j = k + 1
    BY <2>3
  <2>4. buf[j] # " " /\ Blank(buf, j + 1, s - 1)
    BY <2>3, <2>a DEF NameEnd
  <2>b. j \in 1..(s - 1)
    BY <2>3, <2>a DEF NameEnd
  <2>c. /\ j < p => p \in (j + 1)..(s - 1)
        /\ p < j => j \in (p + 1)..(s - 1)
    BY <1>e, <2>b
  <2>5. ~(j < p)
    BY <1>g, <2>c, <2>4 DEF Blank
  <2>6. ~(p < j)
    BY <1>2, <2>c, <2>4 DEF Blank
  <2> QED
    BY <2>3, <2>a, <2>5, <2>6
<1>10. ValueStart(buf) = q - 1
  <2>2. ~Blank(buf, s + 1, Len(buf))
    BY <1>e, <1>g DEF Blank
  <2>3. PICK k \in Nat : ValueStart(buf) = k /\ ValueBegin(buf, s, k + 1)
    BY <1>7, <1>8, <2>2, ValueFound, LineIndexes
  <2>a. PICK j \in Nat : j = k + 1
    BY <2>3
  <2>4. buf[j] # " " /\ Blank(buf, s + 1, j - 1)
    BY <2>3, <2>a DEF ValueBegin
  <2>b. j \in (s + 1)..Len(buf)
    BY <2>3, <2>a DEF ValueBegin
  <2>c. /\ q < j => q \in (s + 1)..(j - 1)
        /\ j < q => j \in (s + 1)..(q - 1)
    BY <1>e, <2>b
  <2>5. ~(q < j)
    BY <1>g, <2>c, <2>4 DEF Blank
  <2>6. ~(j < q)
    BY <1>2, <2>c, <2>4 DEF Blank
  <2> QED
    BY <2>3, <2>a, <2>5, <2>6
<1>11. key = SubSeq(buf, 1, p)
  <2>1. p <= Len(buf)
    BY <1>2, <1>3
  <2>2. SubSeq(buf, 1, p) \in Seq(STRING) /\ Len(SubSeq(buf, 1, p)) = p
        /\ \A i \in 1..p : SubSeq(buf, 1, p)[i] = buf[i]
    BY <2>1
  <2> QED
    BY <1>2, <1>3, <2>2, SameSeq
<1>12. value = SubSeq(buf, q, Len(buf))
  <2>1. q \in Nat /\ q >= 1 /\ q <= Len(buf) /\ Len(buf) - q + 1 = v
    BY <1>2, <1>3
  <2> DEFINE rest == SubSeq(buf, q, Len(buf))
  <2>2. rest \in Seq(STRING) /\ Len(rest) = v
    BY <2>1
  <2>3. ASSUME NEW i \in 1..v PROVE rest[i] = value[i]
    <3>1. rest[i] = buf[q + i - 1]
      BY <2>1, <2>2
    <3>2. q + i - 1 = q - 1 + i
      BY <2>1
    <3> QED
      BY <1>2, <3>1, <3>2
  <2> HIDE DEF rest
  <2>4. rest = value
    BY <1>3, <2>2, <2>3, SameSeq
  <2> QED
    BY <2>4 DEF rest
<1>13. p - 1 # NPos /\ q - 1 # NPos /\ p - 1 + 1 = p /\ q - 1 + 1 = q
  BY <1>2, <1>3, <1>5
<1> QED
  BY <1>6, <1>9, <1>10, <1>11, <1>12, <1>13

\* Names and values are not in the way of each other: a line that ends behind them
\* is put together of its parts.
Parts(buf, p, s, q, c, e) ==
  buf = SubSeq(buf, 1, p) \o [i \in 1..(s - 1 - p) |-> c] \o <<e>>
          \o [i \in 1..(q - 1 - s) |-> c] \o SubSeq(buf, q, Len(buf))

LEMMA PartsOfLine ==
  ASSUME NEW S, NEW c \in S, NEW e \in S, NEW buf \in Seq(S),
         NEW p \in Nat, NEW s \in Nat, NEW q \in Nat,
         1 <= p, p < s, s < q, q <= Len(buf), buf[s] = e,
         \A i \in (p + 1)..(s - 1) : buf[i] = c, \A i \in (s + 1)..(q - 1) : buf[i] = c
  PROVE  Parts(buf, p, s, q, c, e)
<1>l. Len(buf) \in Nat
  BY LenProperties
<1>k. PICK key \in Seq(S) : /\ key = SubSeq(buf, 1, p) /\ Len(key) = p
                            /\ \A i \in 1..p : key[i] = buf[i]
  <2>1. 1 \in Int /\ p \in Int /\ \A i \in 1..p : buf[i] \in S
    BY <1>l
  <2>2. /\ SubSeq(buf, 1, p) \in Seq(S) /\ Len(SubSeq(buf, 1, p)) = p
        /\ \A i \in 1..p : SubSeq(buf, 1, p)[i] = buf[i]
    BY <1>l
  <2> QED
    BY <2>2
<1>v. PICK value \in Seq(S), v \in Nat :
        /\ value = SubSeq(buf, q, Len(buf)) /\ v = Len(value)
        /\ v = Len(buf) - q + 1
        /\ \A i \in 1..v : value[i] = buf[q - 1 + i]
  <2>1. /\ SubSeq(buf, q, Len(buf)) \in Seq(S)
        /\ Len(SubSeq(buf, q, Len(buf))) = Len(buf) - q + 1
        /\ Len(buf) - q + 1 \in Nat
    BY <1>l
  <2>2. ASSUME NEW i \in 1..(Len(buf) - q + 1)
        PROVE  SubSeq(buf, q, Len(buf))[i] = buf[q - 1 + i]
    <3>1. SubSeq(buf, q, Len(buf))[i] = buf[q + i - 1]
      BY <1>l
    <3>2. q + i - 1 = q - 1 + i
      OBVIOUS
    <3> QED
      BY <3>1, <3>2
  <2> QED
    BY <2>1, <2>2
<1>m. PICK m \in Nat, n \in Nat : m = s - 1 - p /\ n = q - 1 - s
  <2>1. s - 1 - p \in Nat /\ q - 1 - s \in Nat
    OBVIOUS
  <2> QED
    BY <2>1
<1> DEFINE w == key \o [i \in 1..m |-> c] \o <<e>> \o [i \in 1..n |-> c] \o value
<1>1. w \in Seq(S)
  <2>1. /\ [i \in 1..m |-> c] \in Seq(S) /\ [i \in 1..n |-> c] \in Seq(S)
        /\ <<e>> \in Seq(S)
    BY Repeated
  <2> QED
    BY <2>1
<1>2. p + m + 1 = s /\ s + n + 1 = q
  BY <1>m
<1>3. LineForm(w, key, value, Len(key), Len(key) + m + 1, Len(key) + m + 1 + n + 1, c, e)
  BY FormPositions
<1> HIDE DEF w
<1>4. LineForm(w, key, value, p, s, q, c, e)
  BY <1>2, <1>3, <1>k
<1>5. /\ Len(w) = q - 1 + v
      /\ \A i \in 1..p : w[i] = key[i]
      /\ \A i \in (p + 1)..(s - 1) : w[i] = c
      /\ w[s] = e
      /\ \A i \in (s + 1)..(q - 1) : w[i] = c
      /\ \A i \in 1..v : w[q - 1 + i] = value[i]
  BY <1>4, <1>v DEF LineForm
<1>6. Len(w) = Len(buf)
  BY <1>l, <1>v, <1>5
<1>7. ASSUME NEW i \in 1..Len(buf) PROVE w[i] = buf[i]
  <2>1. CASE i \in 1..p
    BY <1>5, <1>k, <2>1
  <2>2. CASE i \in (p + 1)..(s - 1)
    BY <1>5, <2>2
  <2>3. CASE i = s
    BY <1>5, <2>3
  <2>4. CASE i \in (s + 1)..(q - 1)
    BY <1>5, <2>4
  <2>5. CASE i \in q..Len(buf)
    <3>1. PICK j \in 1..v : q - 1 + j = i
      <4>1. i - (q - 1) \in 1..v /\ q - 1 + (i - (q - 1)) = i
        BY <1>l, <1>v, <2>5
      <4> QED
        BY <4>1
    <3> QED
      BY <1>5, <1>v, <3>1
  <2> QED
    BY <1>l, <2>1, <2>2, <2>3, <2>4, <2>5
<1>8. w = buf
  BY <1>1, <1>6, <1>7, SameSeq
<1> QED
  BY <1>8, <1>k, <1>v, <1>m DEF w, Parts

\* ... and what is read from a line is defined by it.
LEMMA ReadIsDefined ==
  ASSUME NEW buf \in Seq(STRING), Len(buf) <= NPos,
         ~IsSkipped(buf), KeyEnd(buf) # NPos, ValueStart(buf) # NPos
  PROVE  /\ KeyEnd(buf) + 1 \in 1..Len(buf) /\ ValueStart(buf) + 1 \in 1..Len(buf)
         /\ Defines(buf, SubSeq(buf, 1, KeyEnd(buf) + 1),
                         SubSeq(buf, ValueStart(buf) + 1, Len(buf)))
<1>1. EqualPos(buf) \in Indexes(buf) /\ Separator(buf, EqualPos(buf) + 1)
  <2>1. EqualPos(buf) = NPos => ValueStart(buf) = NPos
    <3>1. SUFFICES ASSUME EqualPos(buf) = NPos PROVE ValueStart(buf) = NPos
      OBVIOUS
    <3>2. \A i \in Indexes(buf) : ~(i > NPos)
      BY LineIndexes, ConfigAssumption DEF Indexes
    <3> QED
      BY <3>1, <3>2 DEF ValueStart, FirstOf
  <2> QED
    BY <2>1, SeparatorFound
<1>2. PICK s \in Nat : s = EqualPos(buf) + 1 /\ Separator(buf, s) /\ EqualPos(buf) = s - 1
  <2>1. EqualPos(buf) \in Nat /\ EqualPos(buf) + 1 \in Nat /\ EqualPos(buf) = EqualPos(buf) + 1 - 1
    BY <1>1, LineIndexes
  <2> QED
    BY <1>1, <2>1
<1>3. PICK p \in Nat : p = KeyEnd(buf) + 1 /\ NameEnd(buf, s, p)
  <2>1. KeyEnd(buf) \in Indexes(buf) /\ NameEnd(buf, s, KeyEnd(buf) + 1)
    BY <1>2, NameFound
  <2>2. KeyEnd(buf) + 1 \in Nat
    BY <2>1, LineIndexes
  <2> QED
    BY <2>1, <2>2
<1>4. PICK q \in Nat : q = ValueStart(buf) + 1 /\ ValueBegin(buf, s, q)
  <2>1. ValueStart(buf) \in Indexes(buf) /\ ValueBegin(buf, s, ValueStart(buf) + 1)
    BY <1>2, ValueFound
  <2>2. ValueStart(buf) + 1 \in Nat
    BY <2>1, LineIndexes
  <2> QED
    BY <2>1, <2>2
<1>l. Len(buf) \in Nat
  BY LineIndexes
<1>5. p \in 1..(s - 1) /\ q \in (s + 1)..Len(buf)
  BY <1>3, <1>4 DEF NameEnd, ValueBegin
<1>6. buf[p] # " " /\ Blank(buf, p + 1, s - 1)
  BY <1>3 DEF NameEnd
<1>7. buf[q] # " " /\ Blank(buf, s + 1, q - 1)
  BY <1>4 DEF ValueBegin
<1>8. buf[s] = "="
  BY <1>2 DEF Separator
<1>9. \A i \in 1..(s - 1) : buf[i] # "="
  BY <1>2 DEF Separator
<1>10. 1 <= p /\ p < s /\ s < q /\ q <= Len(buf) /\ p <= Len(buf) /\ 1 <= q
  BY <1>5, <1>l
<1> DEFINE key == SubSeq(buf, 1, p)
           value == SubSeq(buf, q, Len(buf))
           S == STRING \cup {" ", "="}
<1>11. PICK m \in Nat, n \in Nat : m = s - 1 - p /\ n = q - 1 - s
  <2>1. s - 1 - p \in Nat /\ q - 1 - s \in Nat
    BY <1>10
  <2> QED
    BY <2>1
<1>12. m \in 0..Len(buf) /\ n \in 0..Len(buf)
  BY <1>l, <1>10, <1>11
<1>13. buf = key \o Blanks(m) \o <<"=">> \o Blanks(n) \o value
  <2>1. STRING \subseteq S /\ " " \in S /\ "=" \in S
    BY Zenon
  <2> HIDE DEF S
  <2>2. buf \in Seq(S)
    BY <2>1, WiderSeq
  <2>3. buf = SubSeq(buf, 1, p) \o Blanks(s - 1 - p) \o <<"=">> \o Blanks(q - 1 - s)
                \o SubSeq(buf, q, Len(buf))
    <3>1. \A i \in (p + 1)..(s - 1) : buf[i] = " "
      BY <1>6 DEF Blank
    <3>2. \A i \in (s + 1)..(q - 1) : buf[i] = " "
      BY <1>7 DEF Blank
    <3>3. Parts(buf, p, s, q, " ", "=")
      BY <1>8, <1>10, <2>1, <2>2, <3>1, <3>2, PartsOfLine, Zenon
    <3> QED
      BY <3>3 DEF Blanks, Parts
  <2> QED
    BY <1>11, <2>3
<1>14. Len(key) = p /\ \A i \in 1..p : key[i] = buf[i]
  BY <1>l, <1>10
<1>15. Len(value) > 0 /\ value[1] = buf[q]
  <2>1. Len(value) = Len(buf) - q + 1 /\ 1 \in 1..Len(value) /\ q + 1 - 1 = q
    BY <1>l, <1>10
  <2>2. \A i \in 1..Len(value) : value[i] = buf[q + i - 1]
    BY <1>l, <1>10
  <2> QED
    BY <2>1, <2>2
<1>16. buf[1] # "#"
  <2>1. buf # <<>>
    BY <1>10
  <2> QED
    BY <2>1 DEF IsSkipped
<1>17. 1 \in 1..p /\ p \in 1..p /\ \A i \in 1..p : i \in 1..(s - 1)
  BY <1>10
<1> HIDE DEF key, value
<1>18. key # <<>> /\ value # <<>>
  BY <1>10, <1>14, <1>15
<1>19. /\ key[1] # "#" /\ key[Len(key)] # " " /\ value[1] # " "
       /\ \A i \in 1..Len(key) : key[i] # "="
  BY <1>6, <1>7, <1>9, <1>14, <1>15, <1>16, <1>17
<1>20. Defines(buf, key, value)
  BY <1>12, <1>13, <1>18, <1>19, Zenon DEF Defines
<1>21. p \in 1..Len(buf) /\ q \in 1..Len(buf)
  BY <1>l, <1>10
<1> QED
  BY <1>3, <1>4, <1>20, <1>21 DEF key, value

\* What a line means is what is read from it.
LEMMA MeaningOfLine ==
  ASSUME NEW buf \in Seq(STRING), Len(buf) <= NPos
  PROVE  Meaning(buf) =
           IF IsSkipped(buf) \/ KeyEnd(buf) = NPos \/ ValueStart(buf) = NPos THEN {}
           ELSE {<<SubSeq(buf, 1, KeyEnd(buf) + 1), SubSeq(buf, ValueStart(buf) + 1, Len(buf))>>}
<1> DEFINE none == IsSkipped(buf) \/ KeyEnd(buf) = NPos \/ ValueStart(buf) = NPos
           key == SubSeq(buf, 1, KeyEnd(buf) + 1)
           value == SubSeq(buf, ValueStart(buf) + 1, Len(buf))
<1>1. ASSUME NEW d \in Meaning(buf) PROVE ~none /\ d = <<key, value>>
  <2>1. PICK p \in 1..Len(buf), q \in 1..Len(buf) :
          d = <<SubSeq(buf, 1, p), SubSeq(buf, q, Len(buf))>> /\ Defines(buf, d[1], d[2])
    BY DEF Meaning
  <2>2. SubSeq(buf, 1, p) \in Seq(STRING) /\ SubSeq(buf, q, Len(buf)) \in Seq(STRING)
    BY LineIndexes
  <2>3. d[1] = SubSeq(buf, 1, p) /\ d[2] = SubSeq(buf, q, Len(buf))
    BY <2>1
  <2> QED
    BY <2>1, <2>2, <2>3, DefinedIsRead
<1>2. ASSUME ~none PROVE <<key, value>> \in Meaning(buf)
  <2>1. /\ KeyEnd(buf) + 1 \in 1..Len(buf) /\ ValueStart(buf) + 1 \in 1..Len(buf)
        /\ Defines(buf, key, value)
    BY <1>2, ReadIsDefined
  <2>2. <<key, value>>[1] = key /\ <<key, value>>[2] = value
    OBVIOUS
  <2>3. PICK p \in 1..Len(buf), q \in 1..Len(buf) :
          key = SubSeq(buf, 1, p) /\ value = SubSeq(buf, q, Len(buf))
    BY <2>1
  <2>4. Defines(buf, key, value)
    BY <2>1
  <2> HIDE DEF key, value
  <2> DEFINE d == <<key, value>>
  <2>5. d \in {<<SubSeq(buf, 1, i), SubSeq(buf, j, Len(buf))>> : i, j \in 1..Len(buf)}
    BY <2>3
  <2>6. Defines(buf, d[1], d[2])
    BY <2>4
  <2> HIDE DEF d
  <2>7. d \in Meaning(buf)
    BY <2>5, <2>6 DEF Meaning
  <2> QED
    BY <2>7 DEF d
<1> HIDE DEF none, key, value
<1>3. Meaning(buf) = IF none THEN {} ELSE {<<key, value>>}
  BY <1>1, <1>2
<1> QED
  BY <1>3 DEF none, key, value

\* Reading ends the process only at a line without a separator.
LEMMA ThrownLine ==
  ASSUME NEW buf \in Seq(STRING), Len(buf) <= NPos, ParseThrows(buf)
  PROVE  buf[1] # "#" /\ \A i \in 1..Len(buf) : buf[i] # "="
<1>1. ~IsSkipped(buf) /\ KeyEnd(buf) # NPos /\ KeyEnd(buf) \notin Indexes(buf)
  BY DEF ParseThrows
<1>2. buf[1] # "#"
  BY <1>1 DEF IsSkipped
<1>3. ~(EqualPos(buf) \in Indexes(buf) /\ Separator(buf, EqualPos(buf) + 1))
  <2>1. SUFFICES ASSUME EqualPos(buf) \in Indexes(buf), Separator(buf, EqualPos(buf) + 1)
                 PROVE  FALSE
    OBVIOUS
  <2>2. PICK s : s = EqualPos(buf) + 1 /\ EqualPos(buf) = s - 1
    BY <2>1, LineIndexes
  <2> QED
    BY <1>1, <2>1, <2>2, NameFound
<1> QED
  BY <1>2, <1>3, SeparatorFound

\* What the lines mean, element by element.
LEMMA InMeaning ==
  ASSUME NEW lines, NEW d
  PROVE  d \in MeaningOf(lines) <=>
           \E i \in 1..Len(lines) :
             /\ d \in Meaning(lines[i])
             /\ \A j \in 1..(i - 1) : \A e \in Meaning(lines[j]) : e[1] # d[1]
BY DEF MeaningOf

\* A name that any line defines has its first definition.
LEMMA FirstDefinition ==
  ASSUME NEW S, NEW lines \in Seq(S), NEW k
  PROVE  (\E i \in 1..Len(lines) : \E e \in Meaning(lines[i]) : e[1] = k)
           <=> \E d \in MeaningOf(lines) : d[1] = k
<1>1. ASSUME NEW d \in MeaningOf(lines), d[1] = k
      PROVE  \E i \in 1..Len(lines) : \E e \in Meaning(lines[i]) : e[1] = k
  BY <1>1, InMeaning
<1>2. ASSUME NEW i \in 1..Len(lines), NEW e \in Meaning(lines[i]), e[1] = k
      PROVE  \E d \in MeaningOf(lines) : d[1] = k
  <2> DEFINE T == {j \in 1..Len(lines) : \E x \in Meaning(lines[j]) : x[1] = k}
  <2>1. T \in SUBSET Nat /\ T # {}
    BY <1>2
  <2>2. PICK j \in T : \A l \in T : j <= l
    BY <2>1, LeastElement
  <2>3. PICK d \in Meaning(lines[j]) : d[1] = k
    BY <2>2
  <2>4. ASSUME NEW l \in 1..(j - 1), NEW x \in Meaning(lines[l]) PROVE x[1] # d[1]
    <3>1. l \in 1..Len(lines) /\ ~(j <= l)
      BY <2>2, LenProperties
    <3> QED
      BY <2>2, <2>3, <3>1
  <2>5. d \in MeaningOf(lines)
    BY <2>2, <2>3, <2>4, InMeaning
  <2> QED
    BY <2>3, <2>5
<1> QED
  BY <1>1, <1>2

\* One more line adds what it defines for the first time.
LEMMA OneMoreLine ==
  ASSUME NEW S, NEW lines \in Seq(S), NEW buf \in S
  PROVE  MeaningOf(Append(lines, buf)) =
           MeaningOf(lines)
             \cup {d \in Meaning(buf) : \A e \in MeaningOf(lines) : e[1] # d[1]}
<1> DEFINE more == Append(lines, buf)
<1>1. PICK n \in Nat : n = Len(lines)
  BY LenProperties
<1>2. /\ Len(more) = n + 1 /\ more[n + 1] = buf
      /\ \A i \in 1..n : more[i] = lines[i]
  BY <1>1, AppendProperties
<1> HIDE DEF more
<1>3. PICK m \in Nat : m = n + 1
  BY <1>1
<1>4. /\ Len(more) = m /\ more[m] = buf
      /\ \A i \in 1..m : i \in 1..n \/ i = m
      /\ \A i \in 1..n : i \in 1..m
      /\ \A i \in 1..n : \A j \in 1..(i - 1) : j \in 1..n
      /\ \A j \in 1..(m - 1) : j \in 1..n
      /\ \A j \in 1..n : j \in 1..(m - 1)
      /\ m \in 1..m
  BY <1>2, <1>3
<1>5. ASSUME NEW d \in MeaningOf(more)
      PROVE  \/ d \in MeaningOf(lines)
             \/ d \in Meaning(buf) /\ \A e \in MeaningOf(lines) : e[1] # d[1]
  <2>1. PICK i \in 1..m : /\ d \in Meaning(more[i])
                          /\ \A j \in 1..(i - 1) : \A e \in Meaning(more[j]) : e[1] # d[1]
    BY <1>4, InMeaning
  <2>2. CASE i \in 1..n
    <3>1. d \in Meaning(lines[i])
      BY <1>2, <2>1, <2>2
    <3>2. \A j \in 1..(i - 1) : \A e \in Meaning(lines[j]) : e[1] # d[1]
      BY <1>2, <1>4, <2>1, <2>2
    <3> QED
      BY <1>1, <2>2, <3>1, <3>2, InMeaning
  <2>3. CASE i = m
    <3>1. d \in Meaning(buf)
      BY <1>4, <2>1, <2>3
    <3>2. \A j \in 1..n : \A e \in Meaning(lines[j]) : e[1] # d[1]
      BY <1>2, <1>4, <2>1, <2>3
    <3>3. \A e \in MeaningOf(lines) : e[1] # d[1]
      BY <1>1, <3>2, InMeaning
    <3> QED
      BY <3>1, <3>3
  <2> QED
    BY <1>4, <2>2, <2>3
<1>6. ASSUME NEW d \in MeaningOf(lines) PROVE d \in MeaningOf(more)
  <2>1. PICK i \in 1..n : /\ d \in Meaning(lines[i])
                          /\ \A j \in 1..(i - 1) : \A e \in Meaning(lines[j]) : e[1] # d[1]
    BY <1>1, InMeaning
  <2>2. i \in 1..m /\ d \in Meaning(more[i])
    BY <1>2, <1>4, <2>1
  <2>3. \A j \in 1..(i - 1) : \A e \in Meaning(more[j]) : e[1] # d[1]
    BY <1>2, <1>4, <2>1
  <2> QED
    BY <1>4, <2>2, <2>3, InMeaning
<1>7. ASSUME NEW d \in Meaning(buf), \A e \in MeaningOf(lines) : e[1] # d[1]
      PROVE  d \in MeaningOf(more)
  <2>1. \A j \in 1..n : \A e \in Meaning(lines[j]) : e[1] # d[1]
    BY <1>1, <1>7, FirstDefinition
  <2>2. \A j \in 1..(m - 1) : \A e \in Meaning(more[j]) : e[1] # d[1]
    BY <1>2, <1>4, <2>1
  <2> QED
    BY <1>4, <2>2, InMeaning
<1> QED
  BY <1>5, <1>6, <1>7 DEF more

Pairs(items) == {<<k, items[k]>> : k \in DOMAIN items}

LEMMA EmplacedPairs ==
  ASSUME NEW items, NEW key, NEW value
  PROVE  Pairs(Emplace(items, key, value)) =
           Pairs(items) \cup {d \in {<<key, value>>} : \A e \in Pairs(items) : e[1] # d[1]}
<1> DEFINE more == Emplace(items, key, value)
<1>1. /\ DOMAIN more = DOMAIN items \cup {key}
      /\ \A k \in DOMAIN items : more[k] = items[k]
      /\ key \notin DOMAIN items => more[key] = value
  BY DEF Emplace
<1> HIDE DEF more
<1>2. \A e \in Pairs(items) : e[1] \in DOMAIN items
  BY DEF Pairs
<1>3. \A k \in DOMAIN items : <<k, items[k]>> \in Pairs(items) /\ <<k, items[k]>>[1] = k
  BY DEF Pairs
<1>4. <<key, value>>[1] = key
  OBVIOUS
<1>5. CASE key \in DOMAIN items
  <2>1. Pairs(more) = Pairs(items)
    BY <1>1, <1>5 DEF Pairs
  <2>2. \E e \in Pairs(items) : e[1] = key
    BY <1>3, <1>5
  <2> QED
    BY <1>4, <2>1, <2>2 DEF more
<1>6. CASE key \notin DOMAIN items
  <2>1. Pairs(more) = Pairs(items) \cup {<<key, value>>}
    BY <1>1, <1>6 DEF Pairs
  <2>2. \A e \in Pairs(items) : e[1] # key
    BY <1>2, <1>6
  <2> QED
    BY <1>4, <2>1, <2>2 DEF more
<1> QED
  BY <1>5, <1>6

\* One line is read as it is meant, whatever was read before.
LEMMA LineRead ==
  ASSUME NEW items, NEW lines \in Seq(Seq(STRING)), NEW buf \in Seq(STRING), Len(buf) <= NPos,
         Pairs(items) = MeaningOf(lines)
  PROVE  Pairs(ParseLine(items, buf)) = MeaningOf(Append(lines, buf))
<1> DEFINE key == SubSeq(buf, 1, KeyEnd(buf) + 1)
           value == SubSeq(buf, ValueStart(buf) + 1, Len(buf))
<1>1. MeaningOf(Append(lines, buf)) =
        Pairs(items) \cup {d \in Meaning(buf) : \A e \in Pairs(items) : e[1] # d[1]}
  BY OneMoreLine
<1>2. CASE IsSkipped(buf) \/ KeyEnd(buf) = NPos \/ ValueStart(buf) = NPos
  <2>1. Meaning(buf) = {} /\ ParseLine(items, buf) = items
    BY <1>2, MeaningOfLine DEF ParseLine
  <2> QED
    BY <1>1, <2>1
<1>3. CASE ~(IsSkipped(buf) \/ KeyEnd(buf) = NPos \/ ValueStart(buf) = NPos)
  <2>1. Meaning(buf) = {<<key, value>>} /\ ParseLine(items, buf) = Emplace(items, key, value)
    BY <1>3, MeaningOfLine DEF ParseLine
  <2> HIDE DEF key, value
  <2> QED
    BY <1>1, <2>1, EmplacedPairs
<1> QED
  BY <1>2, <1>3

LEMMA OneLonger ==
  ASSUME NEW S, NEW f \in Seq(S), NEW n \in 1..Len(f)
  PROVE  /\ SubSeq(f, 1, n - 1) \in Seq(S)
         /\ SubSeq(f, 1, n) = Append(SubSeq(f, 1, n - 1), f[n])
<1>1. Len(f) \in Nat
  BY LenProperties
<1>2. PICK a \in Seq(S) : /\ a = SubSeq(f, 1, n - 1) /\ Len(a) = n - 1
                          /\ \A i \in 1..(n - 1) : a[i] = f[i]
  <2>1. /\ SubSeq(f, 1, n - 1) \in Seq(S) /\ Len(SubSeq(f, 1, n - 1)) = n - 1
        /\ \A i \in 1..(n - 1) : SubSeq(f, 1, n - 1)[i] = f[i]
    BY <1>1
  <2> QED
    BY <2>1
<1>3. PICK b \in Seq(S) : /\ b = SubSeq(f, 1, n) /\ Len(b) = n
                          /\ \A i \in 1..n : b[i] = f[i]
  <2>1. /\ SubSeq(f, 1, n) \in Seq(S) /\ Len(SubSeq(f, 1, n)) = n
        /\ \A i \in 1..n : SubSeq(f, 1, n)[i] = f[i]
    BY <1>1
  <2> QED
    BY <2>1
<1>4. PICK c \in Seq(S) : /\ c = Append(a, f[n]) /\ Len(c) = n
                          /\ \A i \in 1..n : c[i] = f[i]
  <2>1. f[n] \in S /\ n - 1 + 1 = n /\ \A i \in 1..n : i \in 1..(n - 1) \/ i = n
    BY <1>1
  <2>2. PICK c : c = Append(a, f[n])
    OBVIOUS
  <2>3. c \in Seq(S) /\ Len(c) = Len(a) + 1
    BY <2>1, <2>2, AppendProperties
  <2>4. \A i \in 1..Len(a) : c[i] = a[i]
    BY <2>1, <2>2, AppendProperties
  <2>5. c[Len(a) + 1] = f[n]
    BY <2>1, <2>2, AppendProperties
  <2>6. \A i \in 1..n : c[i] = f[i]
    BY <1>2, <2>1, <2>4, <2>5
  <2>7. Len(c) = n
    BY <1>2, <2>1, <2>3
  <2> QED
    BY <2>2, <2>3, <2>6, <2>7
<1>5. b = c
  BY <1>3, <1>4, SameSeq
<1> QED
  BY <1>2, <1>3, <1>4, <1>5

\* A line ends the process only when it has no separator: never because of where the
\* separator stands or what the blanks around it are.
THEOREM ThrowsAreMeant == Spec => []ThrowsOnlyWithoutSeparator
<1>1. Init => ThrowsOnlyWithoutSeparator
  BY DEF Init, ThrowsOnlyWithoutSeparator
<1>2. TypeInv /\ ThrowsOnlyWithoutSeparator /\ [Next]_vars => ThrowsOnlyWithoutSeparator'
  <2> SUFFICES ASSUME TypeInv, ThrowsOnlyWithoutSeparator, [Next]_vars, ended' = "config"
               PROVE  /\ file'[at'][1] # "#"
                      /\ \A i \in 1..Len(file'[at']) : file'[at'][i] # "="
    BY DEF ThrowsOnlyWithoutSeparator
  <2>1. CASE UNCHANGED vars
    BY <2>1 DEF ThrowsOnlyWithoutSeparator, vars, configVars
  <2>2. CASE ended = "no" /\ ReadLine
    <3>1. ParseThrows(file[at]) /\ at \in 1..Len(file) /\ UNCHANGED <<file, at>>
      BY <2>2 DEF ReadLine
    <3>2. file \in Files
      BY <3>1 DEF TypeInv, TypeOK
    <3>3. file[at] \in Seq(STRING) /\ Len(file[at]) <= NPos
      BY <3>1, <3>2, CallsAssumption
    <3> QED
      BY <3>1, <3>3, ThrownLine
  <2>3. CASE ended = "no" /\ ~ReadLine /\ (AppStep \/ PollStep \/ PeerStep)
    <3>1. ended' # "config"
      BY <2>3 DEF AppStep, EntryInit, EntryStart, EntryStop, EntryDeinit, EntryMethods,
                  PollStep, EpollWait, NextEvent, RecvHeader, RecvBody, HandleData, Lookup, Run,
                  Send, PeerStep, Connect, Transmit, PeerClose, PeerSend
    <3> QED
      BY <3>1
  <2> QED
    BY <2>1, <2>2, <2>3 DEF Next
<1> QED
  BY <1>1, <1>2, InitialType, NextType, PTL DEF Spec

\* What has been read of a configuration is what its lines mean, for every file: the
\* names without the blanks around them, the values without those in front, of each
\* name the first definition, and nothing of comments and of lines without a value.
THEOREM ConfigIsMeant == Spec => []ParsedAsMeant
<1>1. Init => ParsedAsMeant
  <2> SUFFICES ASSUME Init PROVE ParsedAsMeant
    OBVIOUS
  <2>1. at = 1 /\ m_configItemMap = <<>> /\ file \in Files
    BY DEF Init
  <2>2. SubSeq(file, 1, at - 1) = <<>>
    BY <2>1, SubSeqEmpty
  <2>3. MeaningOf(<<>>) = {}
    BY DEF MeaningOf
  <2>4. Pairs(m_configItemMap) = {}
    BY <2>1 DEF Pairs
  <2> QED
    BY <2>2, <2>3, <2>4 DEF ParsedAsMeant, Pairs
<1>2. TypeInv /\ ParsedAsMeant /\ [Next]_vars => ParsedAsMeant'
  <2> SUFFICES ASSUME TypeInv, ParsedAsMeant, [Next]_vars, at' > 0
               PROVE  Pairs(m_configItemMap') = MeaningOf(SubSeq(file', 1, at' - 1))
    BY DEF ParsedAsMeant, Pairs
  <2>1. at > 0 => Pairs(m_configItemMap) = MeaningOf(SubSeq(file, 1, at - 1))
    BY DEF ParsedAsMeant, Pairs
  <2>2. CASE UNCHANGED <<file, at, m_configItemMap>>
    BY <2>1, <2>2
  <2>3. CASE ReadLine /\ ~UNCHANGED <<file, at, m_configItemMap>>
    <3>1. /\ at \in 1..Len(file) /\ at' = at + 1 /\ file' = file
          /\ m_configItemMap' = ParseLine(m_configItemMap, file[at])
      BY <2>3 DEF ReadLine
    <3>2. file \in Seq(Seq(STRING)) /\ Len(file[at]) <= NPos
      BY <3>1, CallsAssumption DEF TypeInv, TypeOK
    <3>3. file[at] \in Seq(STRING) /\ Len(file) \in Nat
      BY <3>1, <3>2
    <3>4. /\ SubSeq(file, 1, at - 1) \in Seq(Seq(STRING))
          /\ SubSeq(file, 1, at) = Append(SubSeq(file, 1, at - 1), file[at])
      BY <3>1, <3>2, <3>3, OneLonger
    <3>5. Pairs(m_configItemMap) = MeaningOf(SubSeq(file, 1, at - 1))
      BY <2>1, <3>1
    <3>6. Pairs(m_configItemMap') = MeaningOf(SubSeq(file, 1, at))
      BY <3>1, <3>2, <3>3, <3>4, <3>5, LineRead
    <3>7. at' - 1 = at
      BY <3>1
    <3> QED
      BY <3>1, <3>6, <3>7
  <2>4. CASE EntryInit
    BY <2>2, <2>4 DEF EntryInit
  <2>5. CASE ~ReadLine /\ ~EntryInit
    BY <2>2, <2>5 DEF Next, AppStep, EntryStart, EntryStop, EntryDeinit, EntryMethods,
                PollStep, EpollWait, NextEvent, RecvHeader, RecvBody, HandleData, Lookup, Run,
                Send, PeerStep, Connect, Transmit, PeerClose, PeerSend, vars, configVars
  <2> QED
    BY <2>2, <2>3, <2>4, <2>5
<1> QED
  BY <1>1, <1>2, InitialType, NextType, PTL DEF Spec
=============================================================================
