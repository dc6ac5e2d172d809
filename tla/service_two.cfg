\* Two connections, one start, one request each.
CONSTANTS
  App = app
  Threads = {app}
  Listener = l
  Members = {l, k1, k2}
  Fds = {l, k1, k2}
  NoMember = nomember
  NoFd = nofd
  WakeFd = wakefd
  MaxGen = 1
  MaxBytes = 0
  MaxStarts = 1
  MaxRequests = 1
SPECIFICATION Spec
INVARIANTS
  MutexKeptOnlyInRace
  ConnectionsAreOwned
