\* Two threads, one call each, on one connection.
CONSTANTS
  Callers = {c1, c2}
  Functions = {"value"}
  MaxCalls = 1
  MaxMsgId = 2
  PeerMayClose = TRUE
  MayDisconnect = FALSE
  MayWakeEarly = FALSE
SPECIFICATION FairSpec
INVARIANTS
  ResultIsOwn
  ItemsHaveOwners
  ExecutedOnce
PROPERTY AnsweredCallReturns
