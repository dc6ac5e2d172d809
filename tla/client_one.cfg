\* One thread, three calls: every kind of function, a service that may close, and an
\* application that may disconnect at any time.
CONSTANTS
  Callers = {c1}
  Functions = {"value", "void", "unknown"}
  MaxCalls = 3
  MaxMsgId = 3
  PeerMayClose = TRUE
  MayDisconnect = TRUE
  MayWakeEarly = TRUE
SPECIFICATION FairSpec
INVARIANTS
  TypeOK
  NoSilentDefault
PROPERTIES
  AnsweredCallReturns
  ImplementsRpcCall
