\* Three connections, one after another or at once, over two descriptors.
CONSTANTS
  App = app
  Senders = {s1}
  Threads = {app}
  Members = {m1, m2, m3}
  Fds = {f1, f2}
  NoMember = nomember
  NoFd = nofd
  WakeFd = wakefd
  MaxGen = 1
  MaxBytes = 0
  MaxAnswers = 1
SPECIFICATION FairSpec
INVARIANTS
  TypeOK
  ConnectedIsPolled
  CrashNeedsLoss
PROPERTIES
  MutexKeptOnlyByReuse
  DropNeedsLoss
  LossIsNoticed
  AppReturns
