------------------------------ MODULE RpcConfig ------------------------------
(***************************************************************************)
(* Reading a configuration (config/src/rpc_config.cpp): lines of the form  *)
(* name = value.  A line is a sequence of characters; its first one has    *)
(* index 0, as in the code.  Indexes are of type size_t, whose arithmetic  *)
(* wraps around: npos is its largest value, and NPos stands for it.        *)
(***************************************************************************)
EXTENDS Integers, Sequences

CONSTANT NPos   \* std::string::npos; larger than any index of a line

ASSUME ConfigAssumption == NPos \in Nat \ {0}

Minus1(size) == (size + NPos) % (NPos + 1)

Indexes(buf) == 0..(Len(buf) - 1)

FirstOf(indexes) ==
  IF indexes = {} THEN NPos ELSE CHOOSE i \in indexes : \A j \in indexes : i <= j
LastOf(indexes) ==
  IF indexes = {} THEN NPos ELSE CHOOSE i \in indexes : \A j \in indexes : j <= i

EqualPos(buf) == FirstOf({i \in Indexes(buf) : buf[i + 1] = "="})

\* Wrong: the search for the end of the name goes over the separator.
KeyEndAtSeparator(buf) ==
  LastOf({i \in Indexes(buf) : i <= EqualPos(buf) /\ buf[i + 1] # " "})

\* The loop from equalPos - 1 down over blanks.  From an index outside of the
\* line it goes nowhere: what lies in front of a std::string's characters (the
\* high bytes of a length) is not a blank.
KeyEnd(buf) ==
  LET start == Minus1(EqualPos(buf))
  IN IF start \notin Indexes(buf) THEN start
     ELSE LastOf({i \in 0..start : buf[i + 1] # " "})

ValueStart(buf) ==
  FirstOf({i \in Indexes(buf) : i > EqualPos(buf) /\ buf[i + 1] # " "})

\* Wrong: a comment is taken for a definition.
IsSkippedEmpty(buf) == buf = <<>>

IsSkipped(buf) == IF buf = <<>> THEN TRUE ELSE buf[1] = "#"

\* A name that would end behind the line: std::string throws length_error, and
\* nobody catches it.
ParseThrows(buf) ==
  ~IsSkipped(buf) /\ KeyEnd(buf) # NPos /\ KeyEnd(buf) \notin Indexes(buf)

Emplace(items, key, value) ==
  [k \in DOMAIN items \cup {key} |-> IF k \in DOMAIN items THEN items[k] ELSE value]

\* Wrong: a name without a value gets an empty one.
ParseLineKeepsEmpty(items, buf) ==
  IF IsSkipped(buf) \/ KeyEnd(buf) = NPos THEN items
  ELSE Emplace(items, SubSeq(buf, 1, KeyEnd(buf) + 1),
                      SubSeq(buf, ValueStart(buf) + 1, Len(buf)))

\* parseLine: skipped lines, lines without a name and without a value add nothing.
ParseLine(items, buf) ==
  IF IsSkipped(buf) \/ KeyEnd(buf) = NPos \/ ValueStart(buf) = NPos THEN items
  ELSE Emplace(items, SubSeq(buf, 1, KeyEnd(buf) + 1),
                      SubSeq(buf, ValueStart(buf) + 1, Len(buf)))

HasValue(items, key) == key \in DOMAIN items   \* getValue >= 0

-----------------------------------------------------------------------------
(* What a line means, by its form: name, blanks, separator, blanks, value *)

Blanks(n) == [i \in 1..n |-> " "]

Defines(buf, key, value) ==
  /\ key # <<>> /\ value # <<>>
  /\ key[1] # "#" /\ key[Len(key)] # " " /\ value[1] # " "
  /\ \A i \in 1..Len(key) : key[i] # "="
  /\ \E m, n \in 0..Len(buf) : buf = key \o Blanks(m) \o <<"=">> \o Blanks(n) \o value

Meaning(buf) ==
  {d \in {<<SubSeq(buf, 1, p), SubSeq(buf, q, Len(buf))>> : p, q \in 1..Len(buf)} :
     Defines(buf, d[1], d[2])}

\* The first definition of a name counts.
MeaningOf(lines) ==
  {d \in UNION {Meaning(lines[i]) : i \in 1..Len(lines)} :
     \E i \in 1..Len(lines) :
       /\ d \in Meaning(lines[i])
       /\ \A j \in 1..(i - 1) : \A e \in Meaning(lines[j]) : e[1] # d[1]}
=============================================================================
