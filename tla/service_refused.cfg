\* One connection without requests, one start.
CONSTANTS
  App = app
  Threads = {app}
  Listener = l
  Members = {l, k1}
  Fds = {l, k1}
  NoMember = nomember
  NoFd = nofd
  WakeFd = wakefd
  MaxGen = 1
  MaxBytes = 0
  MaxStarts = 1
  MaxRequests = 0
SPECIFICATION Spec
INVARIANT RefusedStopIsHarmless
