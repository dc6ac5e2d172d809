----------------------------- MODULE WireProofs -----------------------------
(* Proofs about the frames of a connection, for every length of 32 bits. *)
EXTENDS Wire, TLAPS, SequenceTheorems

UInt32 == {num \in Nat : num < 256 * 16777216}

\* The bytes of a number, from the last one up.
LEMMA Bytes ==
  ASSUME NEW num \in UInt32
  PROVE  /\ SET_UINT32_TO_CHARS(num) \in Seq(UInt8)
         /\ Len(SET_UINT32_TO_CHARS(num)) = 4
<1>1. /\ (num \div 16777216) % 256 \in UInt8
      /\ (num \div 65536) % 256 \in UInt8
      /\ (num \div 256) % 256 \in UInt8
      /\ num % 256 \in UInt8
  BY SMT DEF UInt32, UInt8
<1> QED
  BY <1>1, SMT DEF SET_UINT32_TO_CHARS

\* What SET_UINT32_TO_CHARS writes, GET_UINT32_FROM_CHARS reads.
THEOREM NumberRoundTrip ==
  \A num \in UInt32 : GET_UINT32_FROM_CHARS(SET_UINT32_TO_CHARS(num)) = num
<1> SUFFICES ASSUME NEW num \in UInt32
             PROVE  GET_UINT32_FROM_CHARS(SET_UINT32_TO_CHARS(num)) = num
  OBVIOUS
<1>1. num \in Nat
  BY SMT DEF UInt32
<1>2. num = 256 * (num \div 256) + (num % 256)
  BY <1>1, SMT
<1>3. num \div 256 = 256 * (num \div 65536) + ((num \div 256) % 256)
  BY <1>1, SMT
<1>4. num \div 65536 = 256 * (num \div 16777216) + ((num \div 65536) % 256)
  BY <1>1, SMT
<1>5. (num \div 16777216) % 256 = num \div 16777216
  BY SMT DEF UInt32
<1> DEFINE a == num \div 16777216
           b == (num \div 65536) % 256
           c == (num \div 256) % 256
           d == num % 256
<1>6. a \in Int /\ b \in Int /\ c \in Int /\ d \in Int
  BY <1>1, SMT
<1>7. num = a * 16777216 + b * 65536 + c * 256 + d
  BY <1>1, <1>2, <1>3, <1>4, SMT
<1> QED
  BY <1>5, <1>6, <1>7, SMT DEF GET_UINT32_FROM_CHARS, SET_UINT32_TO_CHARS

\* Four elements behind another one.
LEMMA FiveElements ==
  ASSUME NEW S, NEW e \in S, NEW s \in Seq(S), Len(s) = 4
  PROVE  /\ <<e>> \o s \in Seq(S) /\ Len(<<e>> \o s) = 5
         /\ (<<e>> \o s)[2] = s[1] /\ (<<e>> \o s)[3] = s[2]
         /\ (<<e>> \o s)[4] = s[3] /\ (<<e>> \o s)[5] = s[4]
<1> DEFINE one == <<e>>
<1>1. one \in Seq(S) /\ Len(one) = 1
  OBVIOUS
<1> HIDE DEF one
<1>0. /\ one \o s \in Seq(S)
      /\ Len(one \o s) = Len(one) + Len(s)
      /\ \A i \in 1..(Len(one) + Len(s)) :
           (one \o s)[i] = IF i <= Len(one) THEN one[i] ELSE s[i - Len(one)]
  <2>1. one \in Seq(S)
    BY <1>1
  <2> QED
    BY <2>1, ConcatProperties
<1>2. one \o s \in Seq(S) /\ Len(one \o s) = 5
  BY <1>1, <1>0
<1>3. \A i \in 2..5 : (one \o s)[i] = s[i - 1]
  BY <1>1, <1>0
<1> QED
  BY <1>2, <1>3 DEF one

LEMMA TailOfFive ==
  ASSUME NEW S, NEW s \in Seq(S), Len(s) = 5
  PROVE  /\ Tail(s)[1] = s[2] /\ Tail(s)[2] = s[3]
         /\ Tail(s)[3] = s[4] /\ Tail(s)[4] = s[5]
<1>1. s # <<>>
  OBVIOUS
<1>2. Len(Tail(s)) = Len(s) - 1 /\ \A i \in 1..Len(Tail(s)) : Tail(s)[i] = s[i + 1]
  BY <1>1, HeadTailProperties
<1> DEFINE tail == Tail(s)
<1>3. Len(tail) = 4 /\ \A i \in 1..Len(tail) : tail[i] = s[i + 1]
  BY <1>2
<1> HIDE DEF tail
<1>4. tail[1] = s[2] /\ tail[2] = s[3] /\ tail[3] = s[4] /\ tail[4] = s[5]
  BY <1>3
<1> QED
  BY <1>4 DEF tail

\* A header tells the length it was made for.
THEOREM HeaderRoundTrip ==
  \A messageLen \in UInt32 :
    /\ Len(SerialerTo(messageLen)) = TCP_HEADER_SIZE
    /\ DeserialerFrom(SerialerTo(messageLen)) = messageLen
<1> SUFFICES ASSUME NEW messageLen \in UInt32
             PROVE  /\ Len(SerialerTo(messageLen)) = TCP_HEADER_SIZE
                    /\ DeserialerFrom(SerialerTo(messageLen)) = messageLen
  OBVIOUS
<1> DEFINE bytes == SET_UINT32_TO_CHARS(messageLen)
           header == SerialerTo(messageLen)
<1>1. bytes \in Seq(UInt8) /\ Len(bytes) = 4 /\ TCP_HEADER_MAGIC \in UInt8
  BY Bytes DEF TCP_HEADER_MAGIC, UInt8
<1>2. header = <<TCP_HEADER_MAGIC>> \o bytes
  BY DEF SerialerTo
<1> HIDE DEF bytes, header
<1>3. /\ header \in Seq(UInt8) /\ Len(header) = 5
      /\ header[2] = bytes[1] /\ header[3] = bytes[2]
      /\ header[4] = bytes[3] /\ header[5] = bytes[4]
  BY <1>1, <1>2, FiveElements
<1>4. HeaderBuffer(header) = header
  <2>1. HeaderBuffer(header) = [i \in 1..5 |-> header[i]]
    BY <1>3 DEF HeaderBuffer, TCP_HEADER_SIZE
  <2> QED
    BY <1>3, <2>1
<1>5. DeserialerFrom(header) = GET_UINT32_FROM_CHARS(bytes)
  <2>1. /\ Tail(header)[1] = bytes[1] /\ Tail(header)[2] = bytes[2]
        /\ Tail(header)[3] = bytes[3] /\ Tail(header)[4] = bytes[4]
    BY <1>3, TailOfFive
  <2>2. DeserialerFrom(header) = GET_UINT32_FROM_CHARS(Tail(header))
    BY <1>4, SMT DEF DeserialerFrom
  <2>3. GET_UINT32_FROM_CHARS(Tail(header)) = GET_UINT32_FROM_CHARS(bytes)
    <3> DEFINE tail == Tail(header)
    <3>1. tail[1] = bytes[1] /\ tail[2] = bytes[2] /\ tail[3] = bytes[3] /\ tail[4] = bytes[4]
      BY <2>1
    <3> HIDE DEF tail
    <3>2. GET_UINT32_FROM_CHARS(tail) = GET_UINT32_FROM_CHARS(bytes)
      BY <3>1, SMT DEF GET_UINT32_FROM_CHARS
    <3> QED
      BY <3>2 DEF tail
  <2> QED
    BY <2>2, <2>3
<1> QED
  BY <1>3, <1>5, NumberRoundTrip DEF bytes, header, TCP_HEADER_SIZE
=============================================================================
