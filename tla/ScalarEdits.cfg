SPECIFICATION Spec
CONSTANTS
  Select = {s1}
  Relation = {r1}
  LimitArgs <- MCLimitArgs
  OffsetArgs <- MCOffsetArgs
  None = None
  NoTree = NoTree
  MaxOps = 2
  MaxSaves = 2
  MaxUnbalanced = 0
INVARIANT RecoverRestoresAttributes
PROPERTIES ChangesAreRecorded SidesAreKept
