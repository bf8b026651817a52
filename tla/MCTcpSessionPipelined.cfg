SPECIFICATION Spec
CONSTANTS
  HeaderLen = 2
  Shapes <- PlainShapes
  AnswerLens = {2, 3}
  AnswerHeader = 4
  BufferCap = 4
  SharedCap = 7
  Configs <- DefaultConfig
  Threshold = 2
  Clients = {"pipelines"}
  MaxMessages = 2
  MaxUnread = 1
INVARIANTS PipelinedIntact
CHECK_DEADLOCK FALSE
