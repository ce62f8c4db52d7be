------------------------- MODULE MCSelectionManager -------------------------
(***************************************************************************)
(* The undo log over the most demanding edits: an operation remembers the  *)
(* tree before and after it, and its undo raises on any other tree.        *)
(***************************************************************************)
EXTENDS UndoHistory

CONSTANT Trees

MCOp == Trees \X Trees
MCEdits(t, op, u) == op = <<t, u>> /\ t # u
MCUndone(op, t) == IF t = op[2] THEN op[1] ELSE t
MCRaises(op, t) == t # op[2]

\* A client that saves, edits and recovers, with a save for every recover.
BalancedSpec == HInit /\ [][HEdit \/ HSaveState \/ HRecover \/ HUndo]_hvars

=============================================================================
