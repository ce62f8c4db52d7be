SPECIFICATION DisciplinedSpec
CONSTANTS
  Trees = {t1, t2, t3}
  NoTree = NoTree
  Tree <- Trees
  Op <- MCOp
  Edits <- MCEdits
  Undone <- MCUndone
  Raises <- MCRaises
  MaxOps = 4
  MaxSaves = 3
  MaxUnbalanced = 0
PROPERTY ImplementsSnapshots
CHECK_DEADLOCK FALSE
