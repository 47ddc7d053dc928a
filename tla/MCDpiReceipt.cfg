SPECIFICATION Spec
CONSTANTS
  x = x
  y = y
  Byte <- MCByte
  Junk = Junk
  NUL = NUL
  MIN_BUF_SIZE = 2
  SML_BUF_SIZE = 6
  LRG_BUF_SIZE = 20
  INITBUFSIZE = 4
  PROT_EOT <- MCEot
  Message <- MCMessage
  MaxSent = 1
PROPERTY ReceiptEndsBlock
CHECK_DEADLOCK FALSE
