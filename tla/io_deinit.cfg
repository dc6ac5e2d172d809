\* No members: three generations of epoll objects and polling threads.
CONSTANTS
  Threads = {}
  Members = {}
  Fds = {}
  NoMember = NoMember
  NoFd = NoFd
  WakeFd = WakeFd
  MaxGen = 3
  MaxBytes = 1
SPECIFICATION Spec
INVARIANT DeinitMeansDown
