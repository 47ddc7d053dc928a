SPECIFICATION Spec
CONSTANTS
  INT_MAX = 40
  Memory = {5, 30, 40}
  CJSON_NESTING_LIMIT = 3
  default_buffer_size = 6
  NumberBuffer = 5
  NumberString = 9
  NotFinite = NotFinite
  Value <- MCValue
  Spelling <- MCSpelling
  Pads <- MCPads
  Comments <- MCComments
  Rooms = {1, 8}
  MaxSpare = 6
INVARIANTS
  PrintExact
  InBounds
  FreedOnce
  RoundTrip
  EndFound
  MinifySame
  CompareMeansSame
