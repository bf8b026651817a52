SPECIFICATION FairSpec
CONSTANTS
  HeaderLen = 2
  Shapes <- MCShapes
  AnswerLens = {2, 3}
  AnswerHeader = 4
  BufferCap = 4
  SharedCap = 7
  Configs <- MCConfigs
  Threshold = 2
  Clients = {"waits", "pipelines"}
  MaxMessages = 2
  MaxUnread = 1
INVARIANTS TypeOK StreamIntact SlabsHeldExactly AnswersFaithful
PROPERTIES ImplementsSession EveryMessageSettled
CHECK_DEADLOCK FALSE
