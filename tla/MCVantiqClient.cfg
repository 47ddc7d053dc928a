SPECIFICATION Spec
CONSTANTS
  x = x
  y = y
  Byte <- MCByte
  Junk = Junk
  NUL = NUL
  NULL = NULL
  MIN_BUF_SIZE = 1
  SML_BUF_SIZE = 4
  LRG_BUF_SIZE = 6
  Payload <- MCPayload
  Chunk <- MCChunk
  Count = {3, 5}
  Status = {200, 401}
  MaxBody = 2
  MaxRead = 2
INVARIANTS
  TypeOK
  ResultFaithful
  UploadFaithful
  ReadsLiveMessage
  QuiescentBetweenCalls
  CallbackGetsBody
PROPERTIES
  StalledCallReturns
  ImplementsRestCall
