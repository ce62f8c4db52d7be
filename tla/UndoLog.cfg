SPECIFICATION HSpec
CONSTANTS
  Trees = {t1, t2, t3}
  NoTree = NoTree
  Tree <- Trees
  Op <- MCOp
  Edits <- MCEdits
  Undone <- MCUndone
  Raises <- MCRaises
  MaxOps = 3
  MaxSaves = 3
  MaxUnbalanced = 1
INVARIANTS LogInv RecoverRestores UndoNeverRaises RecordingMatchesSaves
PROPERTY RecoverEnds
