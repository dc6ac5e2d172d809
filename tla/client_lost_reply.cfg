\* One thread, one call of a value function, a service that stays up.
CONSTANTS
  Callers = {c1}
  Functions = {"value"}
  MaxCalls = 1
  MaxMsgId = 1
  PeerMayClose = FALSE
  MayDisconnect = FALSE
  MayWakeEarly = FALSE
SPECIFICATION FairSpec
PROPERTY EverySyncCallReturns
