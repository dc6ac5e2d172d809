\* Two members, two descriptors, one application thread, one generation.
CONSTANTS
  Threads = {t1}
  Members = {m1, m2}
  Fds = {f1, f2}
  NoMember = NoMember
  NoFd = NoFd
  WakeFd = WakeFd
  MaxGen = 1
  MaxBytes = 1
SPECIFICATION FairSpec
INVARIANTS
  TypeOK
  MutexNeverKept
  PolledIsRegistered
  TableMatchesOwners
PROPERTIES EveryCallReturns StopReachesLoop
