\* Two peers, two requests and one, one function that is registered at times and a
\* name that never is.
CONSTANTS
  NPos = 15
  Conns = {1, 2}
  Names = {1, 2}
  Registrable = {1}
  Files <- MCFiles
  Breaks = {0, 2, 7}
  MaxRequests <- MCMaxRequests
SPECIFICATION FairSpec
INVARIANTS
  TypeOK
  ParsedAsMeant
  ThrowsOnlyWithoutSeparator
  RunStemsFromRequest
  AnswersInOrder
  AtMostOneLateRun
PROPERTY MessagesAreRead
