SPECIFICATION Spec
CONSTANTS
  NULL = NULL
  Nobody = Nobody
  Thread = {t1, t2}
  MaxMessages = 2
  MAXLINELENGTH = 9
  Fold <- MCFold
  File <- MCFile
  Name <- MCName
  Version <- MCVersion
  Select <- MCSelect
CHECK_DEADLOCK FALSE
INVARIANTS
  ConfigRead
  UrlFaithful
  LinesWhole
  TimeOfMessage
PROPERTIES
  CallsReturn
