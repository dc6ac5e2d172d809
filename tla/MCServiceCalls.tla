--------------------------- MODULE MCServiceCalls ---------------------------
(* An instance of ServiceCalls for TLC.  The configurations are every single *)
(* line of up to four characters, and some files of several lines.           *)
EXTENDS ServiceCalls

Chars == {"IP", "#", "=", " ", "1"}
Lines == UNION {[1..n -> Chars] : n \in 0..4}

IpLine   == <<"IP", "=", "1">>
PortLine == <<"Port", " ", "=", " ", "1">>

MCMaxRequests == [k \in Conns |-> IF k = 1 THEN 2 ELSE 1]

MCFiles ==
  {<<l>> : l \in Lines} \cup
  { <<IpLine, PortLine>>,
    <<IpLine, <<"Port", "=", "v">> >>,                     \* stoi throws
    << <<"#", "I">>, PortLine, <<>>, IpLine>>,
    <<IpLine, <<"IP", "=", "v">>, <<"IP", "#", "=", "v">> >>,  \* no port
    <<PortLine, <<"P", "v">> >> }                          \* no separator
=============================================================================
