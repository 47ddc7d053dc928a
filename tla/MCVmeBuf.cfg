SPECIFICATION Spec
CONSTANTS
  x = x
  y = y
  Byte <- MCByte
  Junk = Junk
  NUL = NUL
  MIN_BUF_SIZE = 2
  SML_BUF_SIZE = 6
  LRG_BUF_SIZE = 8
  Piece <- MCPiece
  MaxBytes = 5
INVARIANTS
  TypeOK
  InBounds
PROPERTIES
  OutlierReleased
  ImplementsByteString
