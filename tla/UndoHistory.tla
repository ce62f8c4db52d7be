---------------------------- MODULE UndoHistory ----------------------------
(***************************************************************************)
(* SelectionManager with history variables, which the code does not have:  *)
(* they remember what the tree was, so that the promise of recover()       *)
(* ("reverts the tree as it was when save_state() was last called") can be *)
(* stated.                                                                 *)
(***************************************************************************)
EXTENDS SelectionManager

CONSTANT NoTree  \* no recover() to answer for

ASSUME NoTreeAssumption == NoTree \notin Tree

\* What the log relies on: undone right after the edit that recorded it, an
\* operation gives the former tree back, and does not raise.
ASSUME EditsAreUndoable ==
  \A t, u \in Tree, op \in Op :
    Edits(t, op, u) => Undone(op, u) = t /\ ~Raises(op, u)

ASSUME UndoneIsATree == \A op \in Op, t \in Tree : Undone(op, t) \in Tree

VARIABLES
  saved,   \* the tree at each pending save_state()
  target,  \* the tree promised by the recover() that runs, or has just ended
  trail,   \* trail[i] is the tree before the edit that recorded op_list[i]
  intact   \* FALSE once the log has been used in a way that breaks the promise

history == <<saved, target, trail, intact>>
hvars   == <<vars, history>>

HTypeOK ==
  /\ TypeOK
  /\ saved \in Seq(Tree)
  /\ target \in Tree \cup {NoTree}
  /\ trail \in Seq(Tree)
  /\ intact \in BOOLEAN

HistoryInit ==
  /\ saved = <<>>
  /\ target = NoTree
  /\ trail = <<>>
  /\ intact = TRUE

HInit == Init /\ HistoryInit

\* A recover() that finds no operation recorded since its save_state(), but
\* older ones: RecoverCount then counts those.
Overshoots == 0 < LastStateIndex /\ Len(op_list) <= LastStateIndex

HChange(u, op) ==
  /\ Change(u, op)
  /\ trail' = IF ShouldRegisterOp THEN <<tree>> \o trail ELSE trail
  /\ target' = NoTree
  /\ UNCHANGED <<saved, intact>>

HEdit == \E op \in Op, u \in Tree : Edits(tree, op, u) /\ HChange(u, op)

HSaveState ==
  /\ SaveState
  /\ saved' = Append(saved, tree)
  /\ target' = NoTree
  /\ UNCHANGED <<trail, intact>>

HRecover ==
  /\ Recover
  /\ saved' = Front(saved)
  /\ target' = Last(saved)
  /\ intact' = (intact /\ ~Overshoots)
  /\ UNCHANGED trail

HRecoverRefused ==
  /\ RecoverRefused
  /\ intact' = FALSE
  /\ target' = NoTree
  /\ UNCHANGED <<saved, trail>>

HUndo ==
  /\ Undo
  /\ trail' = Tail(trail)
  /\ UNCHANGED <<saved, target, intact>>

HUndoRaises ==
  /\ UndoRaises
  /\ trail' = IF op_list' = op_list THEN trail ELSE Tail(trail)
  /\ UNCHANGED <<saved, target, intact>>

HFlush ==
  /\ Flush
  /\ trail' = <<>>
  /\ intact' = (intact /\ op_list = <<>>)
  /\ target' = NoTree
  /\ UNCHANGED saved

\* The steps of the manager itself, whatever the edits are.
HManager ==
  \/ HSaveState
  \/ HRecover
  \/ HRecoverRefused
  \/ HUndo
  \/ HUndoRaises
  \/ HFlush

HNext == HEdit \/ HManager

HFairness == WF_hvars(HUndo \/ HUndoRaises)

HSpec == HInit /\ [][HNext]_hvars /\ HFairness

-----------------------------------------------------------------------------
\* The inductive invariant: the log is a chain of trees, each operation leading
\* from one to the next, and every pending save_state() marks a link of it.

\* The tree just after the edit that recorded op_list[i].
TreeAfter(i) == IF i = 1 THEN tree ELSE trail[i - 1]

\* The tree when k operations were recorded.
TreeAt(k) == IF k = Len(op_list) THEN tree ELSE trail[Len(op_list) - k]

LengthsAgree == Len(trail) = Len(op_list) /\ Len(saved) = Len(state_stack)

Recording == ~undoing /\ memorizing = Len(state_stack)

ChainUndoes ==
  \A i \in 1 .. Len(op_list) :
    /\ Undone(op_list[i], TreeAfter(i)) = trail[i]
    /\ ~Raises(op_list[i], TreeAfter(i))

MarksInOrder ==
  /\ \A i \in 1 .. Len(state_stack) : state_stack[i] <= Len(op_list) - remaining
  /\ \A i, j \in 1 .. Len(state_stack) : i <= j => state_stack[i] <= state_stack[j]
  /\ Len(state_stack) = 0 => remaining = Len(op_list)
  /\ Len(state_stack) > 0 => state_stack[1] = 0

MarksKeepTrees == \A i \in 1 .. Len(state_stack) : saved[i] = TreeAt(state_stack[i])

TargetIsAhead ==
  /\ remaining > 0 => target # NoTree
  /\ target # NoTree => target = TreeAt(Len(op_list) - remaining)

LogInv ==
  /\ LengthsAgree
  /\ intact => /\ Recording
               /\ ChainUndoes
               /\ MarksInOrder
               /\ MarksKeepTrees
               /\ TargetIsAhead

-----------------------------------------------------------------------------
\* What recover() promises (Union.recover, SelectionManager.recover).

\* When a recover() has ended, the tree is the one of the save_state() it
\* answers, provided that every recover() so far found an operation recorded
\* since its save_state() (or no operation at all) and had a save_state().
RecoverRestores == (intact /\ Idle /\ target # NoTree) => tree = target

\* The same without the proviso, which is what the docstrings say.
RecoverAlwaysRestores == (Idle /\ target # NoTree) => tree = target

\* As long as the log is intact, no operation raises while it is undone.
UndoNeverRaises == (intact /\ ~Idle) => ~Raises(Head(op_list), tree)

\* As long as the log is intact, recording is on exactly when a save_state()
\* is pending, and nothing recorded outlives the outermost recover().
RecordingMatchesSaves ==
  (intact /\ Idle) =>
    /\ ShouldRegisterOp <=> (state_stack # <<>>)
    /\ (state_stack = <<>>) => (op_list = <<>>)

\* A recover() that has started ends.
RecoverEnds == ~Idle ~> Idle

-----------------------------------------------------------------------------
\* A client that never breaks the log: only to it are the snapshots promised.
DisciplinedSpec == HInit /\ [][HNext /\ intact']_hvars

\* The tree as the client may rely on it: while recover() runs, the one it is
\* going to restore.
Promised == IF target # NoTree THEN target ELSE tree

Snap == INSTANCE Snapshots WITH tree <- Promised

\* Under that client the log implements the stack of snapshots: a recover() is
\* one Restore, and its undo() calls change nothing of what is promised.
ImplementsSnapshots == Snap!Spec
=============================================================================
