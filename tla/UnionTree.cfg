SPECIFICATION Spec
CONSTANTS
  ParsedTrees <- MCParsedTrees
  Select <- MCSelect
  UnionNode <- MCUnionNode
  Etype <- MCEtype
  Limits <- MCLimits
  Offsets <- MCOffsets
  None = None
  NoTree = NoTree
  MaxEdits = 3
  MaxOps = 6
  MaxSaves = 2
  MaxUnbalanced = 0
INVARIANTS TreeIsSound UndoIsExact LocateFinds
PROPERTY BoundsApplyToTheUnion
CHECK_DEADLOCK FALSE
