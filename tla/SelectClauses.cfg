SPECIFICATION SavingSpec
CONSTANTS
  X = X
  Y = Y
  x1 = x1
  x2 = x2
  x3 = x3
  xf = xf
  xg = xg
  y1 = y1
  Var = {X, Y}
  Ref = {x1, x2, x3, xf, xg, y1}
  Wrapped = {xf, xg}
  VarOf <- MCVarOf
  ParsedTrees <- MCParsedTrees
  NoTree = NoTree
  MaxOps = 4
  MaxSaves = 1
  MaxUnbalanced = 0
INVARIANTS TreeIsSound UndoIsExact
CONSTRAINT OneStray
CHECK_DEADLOCK FALSE
