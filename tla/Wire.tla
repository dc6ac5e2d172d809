-------------------------------- MODULE Wire --------------------------------
(***************************************************************************)
(* What goes over a connection: frames of a five-byte header and a body    *)
(* (io/src/tcp_io_connection.cpp), the 32-bit length in network order      *)
(* (common/message_public.h), and the fields of a body                     *)
(* (serial/rpc_serialer.h).  Bytes are numbers.  msgpack is not modelled:  *)
(* each field of a body is one byte, and a body that ends before a field   *)
(* is one from which unpacking that field throws.                          *)
(***************************************************************************)
EXTENDS Integers, Sequences

UInt8 == 0..255

\* data[1] is the byte the code calls data[0].
GET_UINT32_FROM_CHARS(data) ==
  data[1] * 16777216 + data[2] * 65536 + data[3] * 256 + data[4]

SET_UINT32_TO_CHARS(num) ==
  <<(num \div 16777216) % 256, (num \div 65536) % 256, (num \div 256) % 256, num % 256>>

TCP_HEADER_MAGIC == 1
TCP_HEADER_SIZE  == 5

SerialerTo(messageLen) == <<TCP_HEADER_MAGIC>> \o SET_UINT32_TO_CHARS(messageLen)

\* The buffer was cleared before it was resized to the header's size, so the
\* bytes that a short recv left out are 0.
HeaderBuffer(bytes) ==
  [i \in 1..TCP_HEADER_SIZE |-> IF i <= Len(bytes) THEN bytes[i] ELSE 0]

\* A header that is too short is reported, and read all the same.
DeserialerFrom(bytes) == GET_UINT32_FROM_CHARS(Tail(HeaderBuffer(bytes)))

Frame(body) == SerialerTo(Len(body)) \o body

\* Fields, and what the getters return when unpacking throws.
COMMAND == 0
REPLAY  == 1
NoName  == 0
Default == 0

Field(body, i, otherwise) == IF i <= Len(body) THEN body[i] ELSE otherwise

GetMessageType(body) == Field(body, 1, -1)
GetMessageName(body) == Field(body, 2, NoName)
GetMessageId(body)   == Field(body, 3, -1)
GetMessageData(body) == Field(body, 4, Default)

SerialMessageMeta(type, name, id) == <<type, name, id>>
SerialMessageData(data, body)     == Append(body, data)
=============================================================================
