SPECIFICATION Spec
CONSTANTS
  x = x
  y = y
  Byte <- MCByte
  Junk = Junk
  NUL = NUL
  MIN_BUF_SIZE = 2
  SML_BUF_SIZE = 6
  LRG_BUF_SIZE = 20
  INITBUFSIZE = 4
  PROT_EOT <- MCEot
  Message <- MCMessage
  MaxSent = 3
INVARIANTS
  TypeOK
  StreamKept
  RoomForTerminator
  OnlyWhatWasSent
PROPERTY CloseEndsWait
CHECK_DEADLOCK FALSE
