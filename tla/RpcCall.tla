------------------------------ MODULE RpcCall ------------------------------
(***************************************************************************)
(* What a client is promised of a remote call: a call that was begun is    *)
(* executed at most once, now or later, and ends at most once; it ends     *)
(* with a result only if it was executed, and then with its own.  Without  *)
(* a result it may still have been, or be about to be, executed.           *)
(***************************************************************************)
EXTENDS Naturals

CONSTANTS
  Callers,       \* threads that make calls
  MaxCalls,      \* bound: calls each thread makes
  Result(_),     \* what a call returns as its result
  Endings,       \* what it returns without one
  Nothing        \* what it has returned before its first

VARIABLES
  begun,     \* how many calls a thread has begun
  busy,      \* the threads in a call
  returned,  \* what its last call returned
  runs       \* how often a call was executed

vars  == <<begun, busy, returned, runs>>
Calls == Callers \X (1..MaxCalls)

Init ==
  /\ begun = [c \in Callers |-> 0]
  /\ busy = {}
  /\ returned = [c \in Callers |-> Nothing]
  /\ runs = [x \in Calls |-> 0]

Begin(c) ==
  /\ c \notin busy /\ begun[c] < MaxCalls
  /\ begun' = [begun EXCEPT ![c] = @ + 1]
  /\ busy' = busy \cup {c}
  /\ UNCHANGED <<returned, runs>>

\* A call that ends as it begins.
Refuse(c) ==
  /\ c \notin busy /\ begun[c] < MaxCalls
  /\ begun' = [begun EXCEPT ![c] = @ + 1]
  /\ \E r \in Endings : returned' = [returned EXCEPT ![c] = r]
  /\ UNCHANGED <<busy, runs>>

Execute(x) ==
  /\ x[2] <= begun[x[1]]
  /\ runs[x] = 0
  /\ runs' = [runs EXCEPT ![x] = 1]
  /\ UNCHANGED <<begun, busy, returned>>

End(c) ==
  /\ c \in busy
  /\ busy' = busy \ {c}
  /\ \E r \in Endings \cup {Result(<<c, begun[c]>>)} :
       /\ r \in Endings \/ runs[<<c, begun[c]>>] = 1
       /\ returned' = [returned EXCEPT ![c] = r]
  /\ UNCHANGED <<begun, runs>>

Next ==
  \/ \E c \in Callers : Begin(c) \/ Refuse(c) \/ End(c)
  \/ \E x \in Calls : Execute(x)

Spec == Init /\ [][Next]_vars
=============================================================================
