\* One connection, two starts, two requests.
CONSTANTS
  App = app
  Threads = {app}
  Listener = l
  Members = {l, k1}
  Fds = {l, k1}
  NoMember = nomember
  NoFd = nofd
  WakeFd = wakefd
  MaxGen = 1
  MaxBytes = 0
  MaxStarts = 2
  MaxRequests = 2
SPECIFICATION FairSpec
INVARIANTS
  TypeOK
  StoppedIsEmpty
PROPERTIES
  
  AppReturns
  RequestsAreRead
