SPECIFICATION DisciplinedSpec
CONSTANTS
  r1 = r1
  r2 = r2
  r3 = r3
  b1 = b1
  b2 = b2
  b3 = b3
  n1 = n1
  e1 = e1
  Relation = {r1, r2, r3}
  Binary = {b1, b2, b3}
  Not = {n1}
  Exists = {e1}
  Select = Select
  Nil = Nil
  NoTree = NoTree
  ParsedTrees <- MCParsedTrees
  MaxOps = 3
  MaxSaves = 1
  MaxUnbalanced = 0
INVARIANTS TreeIsSound UndoIsExact
PROPERTY RemoveIsExact
SYMMETRY Symmetry
CHECK_DEADLOCK FALSE
