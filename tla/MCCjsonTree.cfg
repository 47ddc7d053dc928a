SPECIFICATION Spec
CONSTANTS
  Item = {i1, i2, i3, i4}
  NULL = NULL
  Static = Static
  MaxRoom = 5
  Created = {"array", "object", "string"}
  Name = {"k", "K"}
  NoName = NoName
  NoCopy = NoCopy
  Lower <- MCLower
SYMMETRY Symmetric
INVARIANTS
  TypeOK
  Linked
  OwnedOnce
  StringsBalanced
  MembersNamed
PROPERTIES
  ImplementsForest
  DuplicateIdentical
