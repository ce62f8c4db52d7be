------------------------- MODULE UndoHistory_proofs -------------------------
(***************************************************************************)
(* Proofs about the undo log, for every tree, operation and bound: its     *)
(* inductive invariant, and what follows from it for recover().            *)
(***************************************************************************)
EXTENDS UndoHistory, SequenceTheorems, TLAPS

-----------------------------------------------------------------------------
\* Sequences as the log uses them: a push and a pop at the head of op_list, and
\* at the end of state_stack.

\* A push at the head shifts every element by one.
LEMMA PushHead ==
  ASSUME NEW S, NEW s \in Seq(S), NEW e \in S
  PROVE  /\ <<e>> \o s \in Seq(S)
         /\ Len(<<e>> \o s) = Len(s) + 1
         /\ (<<e>> \o s)[1] = e
         /\ \A i \in 2 .. Len(s) + 1 : (<<e>> \o s)[i] = s[i - 1]
  OBVIOUS

\* A pop at the head shifts them back.
LEMMA PopHead ==
  ASSUME NEW S, NEW s \in Seq(S), Len(s) > 0
  PROVE  /\ Head(s) = s[1]
         /\ Head(s) \in S
         /\ Tail(s) \in Seq(S)
         /\ Len(Tail(s)) = Len(s) - 1
         /\ \A i \in 1 .. Len(s) - 1 : Tail(s)[i] = s[i + 1]
  OBVIOUS

\* A pop at the end leaves the other elements where they are.
LEMMA PopEnd ==
  ASSUME NEW S, NEW s \in Seq(S), s # <<>>
  PROVE  /\ Last(s) = s[Len(s)]
         /\ Last(s) \in S
         /\ Front(s) \in Seq(S)
         /\ Len(Front(s)) = Len(s) - 1
         /\ \A i \in 1 .. Len(s) - 1 : Front(s)[i] = s[i]
         /\ Len(s) \in Nat \ {0}
<1>1. Len(s) \in Nat \ {0}
  BY EmptySeq
<1>2. Front(s) = SubSeq(s, 1, Len(s) - 1)
  BY DEF Front
<1>3. /\ Front(s) \in Seq(S)
      /\ Len(Front(s)) = Len(s) - 1
      /\ \A i \in 1 .. Len(s) - 1 : Front(s)[i] = s[i]
  <2>1. \A i \in 1 .. Len(s) - 1 : s[i] \in S
    BY <1>1, ElementOfSeq
  <2> DEFINE n == Len(s) - 1
  <2>2. n \in Int /\ n >= 0 /\ \A i \in 1 .. n : s[i] \in S
    BY <1>1, <2>1
  <2> HIDE DEF n
  <2>3. /\ SubSeq(s, 1, n) \in Seq(S)
        /\ Len(SubSeq(s, 1, n)) = IF 1 <= n THEN n - 1 + 1 ELSE 0
        /\ \A i \in 1 .. n - 1 + 1 : SubSeq(s, 1, n)[i] = s[1 + i - 1]
    BY <2>2, SubSeqProperties
  <2>4. /\ Len(SubSeq(s, 1, n)) = n
        /\ \A i \in 1 .. n : SubSeq(s, 1, n)[i] = s[i]
    BY <2>2, <2>3
  <2> QED BY <1>2, <2>3, <2>4 DEF n
<1> QED BY <1>1, <1>3, ElementOfSeq DEF Last

\* A push at the end as well.
LEMMA PushEnd ==
  ASSUME NEW S, NEW s \in Seq(S), NEW e \in S
  PROVE  /\ Append(s, e) \in Seq(S)
         /\ Len(Append(s, e)) = Len(s) + 1
         /\ Append(s, e)[Len(s) + 1] = e
         /\ \A i \in 1 .. Len(s) : Append(s, e)[i] = s[i]
  OBVIOUS

\* What recover() undoes is never more than what is recorded.
LEMMA RecoverCountBounds ==
  ASSUME NEW last \in Nat, NEW len \in Nat
  PROVE  /\ RecoverCount(last, len) \in 0 .. len
         /\ ~(0 < last /\ len <= last) => RecoverCount(last, len) = len - last
  BY DEF RecoverCount

-----------------------------------------------------------------------------
LEMMA TypeStep ==
  ASSUME HTypeOK, LengthsAgree, [HNext]_hvars
  PROVE  HTypeOK'
<1> USE BoundsAssumption, UndoneIsATree DEF HTypeOK, TypeOK
<1>0. Len(op_list) \in Nat /\ Len(state_stack) \in Nat
  BY LenProperties
<1>1. CASE HEdit
  <2>1. PICK op \in Op, u \in Tree : HChange(u, op)
    BY <1>1 DEF HEdit
  <2>2. CASE ShouldRegisterOp
    <3>1. op_list' = <<op>> \o op_list /\ trail' = <<tree>> \o trail
      BY <2>1, <2>2 DEF HChange, Change, AddOperation
    <3>2. op_list' \in Seq(Op) /\ trail' \in Seq(Tree) /\ Len(op_list') = Len(op_list) + 1
      BY <3>1, PushHead
    <3> QED BY <2>1, <2>2, <3>2 DEF HChange, Change, AddOperation
  <2>3. CASE ~ShouldRegisterOp
    BY <2>1, <2>3 DEF HChange, Change, mgr
  <2> QED BY <2>2, <2>3
<1>2. CASE HSaveState
  <2>1. state_stack' \in Seq(Nat) /\ saved' \in Seq(Tree)
    BY <1>2, PushEnd DEF HSaveState, SaveState
  <2> QED BY <1>2, <2>1 DEF HSaveState, SaveState
<1>3. CASE HRecover
  <2>1. state_stack # <<>> /\ LastStateIndex \in Nat /\ state_stack' \in Seq(Nat)
    BY <1>3, PopEnd DEF HRecover, Recover, LastStateIndex
  <2>2. remaining' \in 0 .. Len(op_list')
    <3>1. RecoverCount(LastStateIndex, Len(op_list)) \in 0 .. Len(op_list)
      BY <1>0, <2>1, RecoverCountBounds
    <3> QED BY <1>3, <3>1 DEF HRecover, Recover
  <2>3. saved' \in Seq(Tree) /\ target' \in Tree
    <3>1. saved # <<>>
      BY <2>1, PopEnd, EmptySeq DEF LengthsAgree
    <3> QED BY <1>3, <3>1, PopEnd DEF HRecover
  <2> QED BY <1>3, <2>1, <2>2, <2>3 DEF HRecover, Recover
<1>4. CASE HRecoverRefused
  <2>1. /\ memorizing' = memorizing - 1
        /\ UNCHANGED <<tree, op_list, state_stack, undoing, remaining, saved, trail>>
        /\ intact' = FALSE /\ target' = NoTree
    BY <1>4 DEF HRecoverRefused, RecoverRefused
  <2>2. memorizing' \in Int
    BY <2>1
  <2>3. intact' \in BOOLEAN /\ target' \in Tree \cup {NoTree}
    BY <2>1
  <2> QED BY <2>1, <2>2, <2>3
<1>5. CASE HUndo \/ HUndoRaises
  <2>1. /\ Len(op_list) > 0 /\ Len(trail) > 0
        /\ op_list' = Tail(op_list) /\ trail' = Tail(trail)
        /\ tree' = Undone(Head(op_list), tree)
    BY <1>5 DEF HUndo, Undo, HUndoRaises, UndoRaises, LengthsAgree
  <2>2. /\ op_list' \in Seq(Op) /\ trail' \in Seq(Tree)
        /\ Len(op_list') = Len(op_list) - 1
        /\ Head(op_list) \in Op
    BY <2>1, PopHead
  <2>3. tree' \in Tree
    BY <2>1, <2>2
  <2>4. remaining' \in 0 .. Len(op_list')
    BY <1>0, <1>5, <2>2 DEF HUndo, Undo, HUndoRaises, UndoRaises
  <2>5. UNCHANGED <<state_stack, memorizing, saved, target, intact>> /\ undoing' \in BOOLEAN
    BY <1>5 DEF HUndo, Undo, HUndoRaises, UndoRaises
  <2> QED BY <2>2, <2>3, <2>4, <2>5
<1>6. CASE HFlush
  BY <1>6 DEF HFlush, Flush, Idle
<1>7. CASE UNCHANGED hvars
  BY <1>7 DEF hvars, vars, mgr, history
<1> QED BY <1>1, <1>2, <1>3, <1>4, <1>5, <1>6, <1>7 DEF HNext, HManager

-----------------------------------------------------------------------------
LEMMA LengthsStep ==
  ASSUME HTypeOK, LengthsAgree, [HNext]_hvars
  PROVE  LengthsAgree'
<1> USE DEF HTypeOK, TypeOK, LengthsAgree
<1>1. CASE HEdit
  <2>1. PICK op \in Op, u \in Tree : HChange(u, op)
    BY <1>1 DEF HEdit
  <2>2. CASE ShouldRegisterOp
    <3>1. op_list' = <<op>> \o op_list /\ trail' = <<tree>> \o trail
      BY <2>1, <2>2 DEF HChange, Change, AddOperation
    <3>2. Len(op_list') = Len(op_list) + 1 /\ Len(trail') = Len(trail) + 1
      BY <3>1, PushHead
    <3> QED BY <2>1, <2>2, <3>2 DEF HChange, Change, AddOperation
  <2> QED BY <2>1, <2>2 DEF HChange, Change, mgr
<1>2. CASE HSaveState
  BY <1>2, PushEnd DEF HSaveState, SaveState
<1>3. CASE HRecover
  <2>1. state_stack # <<>> /\ saved # <<>>
    BY <1>3, EmptySeq DEF HRecover, Recover
  <2>2. /\ Len(Front(state_stack)) = Len(state_stack) - 1
        /\ Len(Front(saved)) = Len(saved) - 1
    BY <2>1, PopEnd
  <2> QED BY <1>3, <2>2 DEF HRecover, Recover
<1>4. CASE HRecoverRefused
  BY <1>4 DEF HRecoverRefused, RecoverRefused
<1>5. CASE HUndo \/ HUndoRaises
  BY <1>5, PopHead DEF HUndo, Undo, HUndoRaises, UndoRaises
<1>6. CASE HFlush
  BY <1>6 DEF HFlush, Flush
<1>7. CASE UNCHANGED hvars
  BY <1>7 DEF hvars, vars, mgr, history
<1> QED BY <1>1, <1>2, <1>3, <1>4, <1>5, <1>6, <1>7 DEF HNext, HManager

\* A recorded edit: the chain grows by a link, and the trees it passes through
\* stay what they were.
LEMMA RecordedEditStep ==
  ASSUME HTypeOK, LogInv, intact, ShouldRegisterOp,
         NEW op \in Op, NEW u \in Tree, Edits(tree, op, u), HChange(u, op)
  PROVE  Recording' /\ ChainUndoes' /\ MarksInOrder' /\ MarksKeepTrees' /\ TargetIsAhead'
<1> DEFINE n == Len(op_list)
<1>1. /\ Idle /\ tree' = u /\ op_list' = <<op>> \o op_list /\ trail' = <<tree>> \o trail
      /\ target' = NoTree
      /\ UNCHANGED <<state_stack, memorizing, undoing, remaining, saved, intact>>
  BY DEF HChange, Change, AddOperation
<1>2. n \in Nat /\ Len(trail) = n /\ remaining = 0
  BY <1>1, LenProperties DEF HTypeOK, TypeOK, LogInv, LengthsAgree, Idle
<1>3. /\ Len(op_list') = n + 1
      /\ op_list'[1] = op
      /\ \A i \in 2 .. n + 1 : op_list'[i] = op_list[i - 1]
      /\ trail'[1] = tree
      /\ \A i \in 2 .. n + 1 : trail'[i] = trail[i - 1]
  BY <1>1, <1>2, PushHead DEF HTypeOK, TypeOK
<1> HIDE DEF n
<1>4. Recording'
  BY <1>1 DEF LogInv, Recording
<1>5. ChainUndoes'
  <2> SUFFICES ASSUME NEW i \in 1 .. n + 1
               PROVE  /\ Undone(op_list'[i], TreeAfter(i)') = trail'[i]
                      /\ ~Raises(op_list'[i], TreeAfter(i)')
    BY <1>3 DEF ChainUndoes
  <2>1. CASE i = 1
    <3>1. TreeAfter(i)' = u
      BY <1>1, <2>1 DEF TreeAfter
    <3>2. Undone(op, u) = tree /\ ~Raises(op, u)
      BY EditsAreUndoable DEF HTypeOK, TypeOK
    <3> QED BY <1>3, <2>1, <3>1, <3>2
  <2>2. CASE i # 1
    <3>1. i \in 2 .. n + 1 /\ i - 1 \in 1 .. n
      BY <1>2, <2>2
    <3>2. TreeAfter(i)' = TreeAfter(i - 1)
      <4>1. TreeAfter(i)' = trail'[i - 1]
        BY <2>2 DEF TreeAfter
      <4>2. CASE i = 2
        BY <1>3, <4>1, <4>2 DEF TreeAfter
      <4>3. CASE i # 2
        <5>1. i - 1 \in 2 .. n + 1 /\ i - 1 # 1
          BY <3>1, <4>3, <1>2
        <5> QED BY <1>3, <4>1, <5>1 DEF TreeAfter
      <4> QED BY <4>2, <4>3
    <3>3. /\ Undone(op_list[i - 1], TreeAfter(i - 1)) = trail[i - 1]
          /\ ~Raises(op_list[i - 1], TreeAfter(i - 1))
      BY <3>1 DEF LogInv, ChainUndoes, n
    <3> QED BY <1>3, <3>1, <3>2, <3>3
  <2> QED BY <2>1, <2>2
<1>6. MarksInOrder'
  <2>1. MarksInOrder
    BY DEF LogInv
  <2>2. Len(state_stack) > 0
    BY DEF LogInv, Recording, ShouldRegisterOp, HTypeOK, TypeOK
  <2>3. \A i \in 1 .. Len(state_stack) : state_stack[i] \in Nat
    BY DEF HTypeOK, TypeOK
  <2>4. \A i \in 1 .. Len(state_stack) : state_stack[i] <= n - remaining
    BY <2>1 DEF MarksInOrder, n
  <2>5. \A i \in 1 .. Len(state_stack) : state_stack[i] <= n + 1 - remaining
    BY <1>2, <2>3, <2>4
  <2>6. /\ \A i, j \in 1 .. Len(state_stack) : i <= j => state_stack[i] <= state_stack[j]
        /\ state_stack[1] = 0
    BY <2>1, <2>2 DEF MarksInOrder
  <2>7. state_stack' = state_stack /\ remaining' = remaining /\ Len(op_list') = n + 1
    BY <1>1, <1>3
  <2> QED BY <1>2, <2>2, <2>5, <2>6, <2>7 DEF MarksInOrder
<1>7. MarksKeepTrees'
  <2> SUFFICES ASSUME NEW i \in 1 .. Len(state_stack)
               PROVE  saved[i] = TreeAt(state_stack[i])'
    BY <1>1 DEF MarksKeepTrees
  <2>1. state_stack[i] \in 0 .. n
    BY <1>2 DEF HTypeOK, TypeOK, LogInv, MarksInOrder, n
  <2> DEFINE k == state_stack[i]
  <2>2. TreeAt(k)' = TreeAt(k)
    <3>1. TreeAt(k)' = trail'[n + 1 - k]
      BY <1>1, <1>2, <1>3, <2>1 DEF TreeAt
    <3>2. CASE k = n
      <4>1. n + 1 - k = 1
        BY <3>2, <1>2
      <4> QED BY <1>3, <3>1, <3>2, <4>1 DEF TreeAt, n
    <3>3. CASE k # n
      <4>1. PICK j \in 2 .. n + 1 : j = n + 1 - k /\ j - 1 = n - k
        BY <1>2, <2>1, <3>3
      <4>2. trail'[j] = trail[j - 1]
        BY <1>3, <4>1
      <4>3. TreeAt(k) = trail[n - k]
        BY <3>3 DEF TreeAt, n
      <4> QED BY <3>1, <4>1, <4>2, <4>3
    <3> QED BY <3>2, <3>3
  <2>3. saved[i] = TreeAt(k)
    BY DEF LogInv, MarksKeepTrees
  <2> QED BY <1>1, <2>2, <2>3
<1>8. TargetIsAhead'
  BY <1>1, <1>2 DEF TargetIsAhead
<1> QED BY <1>4, <1>5, <1>6, <1>7, <1>8

\* An edit that is not recorded: no save_state() is pending, the log is empty.
LEMMA UnrecordedEditStep ==
  ASSUME HTypeOK, LogInv, intact, ~ShouldRegisterOp,
         NEW op \in Op, NEW u \in Tree, HChange(u, op)
  PROVE  Recording' /\ ChainUndoes' /\ MarksInOrder' /\ MarksKeepTrees' /\ TargetIsAhead'
<1>1. /\ remaining = 0 /\ target' = NoTree
      /\ UNCHANGED <<op_list, state_stack, memorizing, undoing, remaining, trail, saved, intact>>
  BY DEF HChange, Change, mgr, Idle
<1>2. Len(state_stack) = 0
  BY DEF LogInv, Recording, ShouldRegisterOp, HTypeOK, TypeOK
<1>3. Len(op_list) = 0
  BY <1>1, <1>2 DEF LogInv, MarksInOrder
<1>4. Recording'
  BY <1>1 DEF LogInv, Recording
<1>5. ChainUndoes'
  BY <1>1, <1>3 DEF ChainUndoes
<1>6. MarksInOrder'
  BY <1>1, <1>2, <1>3 DEF MarksInOrder
<1>7. MarksKeepTrees'
  BY <1>1, <1>2 DEF MarksKeepTrees
<1>8. TargetIsAhead'
  BY <1>1 DEF TargetIsAhead
<1> QED BY <1>4, <1>5, <1>6, <1>7, <1>8

\* A save_state() marks the end of the chain.
LEMMA SaveStateStep ==
  ASSUME HTypeOK, LogInv, intact, HSaveState
  PROVE  Recording' /\ ChainUndoes' /\ MarksInOrder' /\ MarksKeepTrees' /\ TargetIsAhead'
<1> DEFINE n == Len(op_list)
           m == Len(state_stack)
<1>1. /\ remaining = 0 /\ target' = NoTree /\ memorizing' = memorizing + 1
      /\ state_stack' = Append(state_stack, n) /\ saved' = Append(saved, tree)
      /\ UNCHANGED <<tree, op_list, undoing, remaining, trail, intact>>
  BY DEF HSaveState, SaveState, Idle
<1>2. n \in Nat /\ m \in Nat /\ Len(saved) = m
  BY LenProperties DEF HTypeOK, TypeOK, LogInv, LengthsAgree
<1>3. /\ Len(state_stack') = m + 1
      /\ state_stack'[m + 1] = n
      /\ \A i \in 1 .. m : state_stack'[i] = state_stack[i]
      /\ saved'[m + 1] = tree
      /\ \A i \in 1 .. m : saved'[i] = saved[i]
  BY <1>1, <1>2, PushEnd DEF HTypeOK, TypeOK
<1>4. /\ \A i \in 1 .. m : state_stack[i] \in Nat /\ state_stack[i] <= n
      /\ \A i, j \in 1 .. m : i <= j => state_stack[i] <= state_stack[j]
      /\ m = 0 => n = 0
      /\ m > 0 => state_stack[1] = 0
  BY <1>1, <1>2 DEF LogInv, MarksInOrder, HTypeOK, TypeOK
<1>5. Len(op_list') = n
  BY <1>1
<1>7. TreeAt(n) = tree
  BY DEF TreeAt
<1>8. Recording'
  BY <1>1, <1>2, <1>3 DEF LogInv, Recording
<1>9. ChainUndoes'
  BY <1>1 DEF LogInv, ChainUndoes, TreeAfter
<1>10. \A i \in 1 .. m : saved[i] = TreeAt(state_stack[i])
  BY DEF LogInv, MarksKeepTrees
<1> HIDE DEF n, m
<1>11. MarksInOrder'
  <2>1. \A i \in 1 .. m + 1 : i \in 1 .. m \/ i = m + 1
    BY <1>2
  <2>2. \A i \in 1 .. m + 1 : state_stack'[i] \in Nat /\ state_stack'[i] <= n
    BY <1>2, <1>3, <1>4, <2>1
  <2>3. \A i, j \in 1 .. m + 1 : i <= j => state_stack'[i] <= state_stack'[j]
    BY <1>2, <1>3, <1>4, <2>1, <2>2
  <2>4. state_stack'[1] = 0
    BY <1>2, <1>3, <1>4
  <2> QED BY <1>1, <1>2, <1>3, <1>5, <2>2, <2>3, <2>4 DEF MarksInOrder
<1>12. MarksKeepTrees'
  <2> SUFFICES ASSUME NEW i \in 1 .. m + 1
               PROVE  saved'[i] = TreeAt(state_stack[i])'
    BY <1>3 DEF MarksKeepTrees
  <2>1. CASE i = m + 1
    BY <1>1, <1>3, <1>7, <2>1 DEF TreeAt
  <2>2. CASE i \in 1 .. m
    BY <1>1, <1>3, <1>10, <2>2 DEF TreeAt
  <2> QED BY <1>2, <2>1, <2>2
<1>13. TargetIsAhead'
  BY <1>1 DEF TargetIsAhead
<1> QED BY <1>8, <1>9, <1>11, <1>12, <1>13

\* A recover() that does not overshoot is going to undo back to its mark.
LEMMA RecoverStep ==
  ASSUME HTypeOK, LogInv, intact, intact', HRecover
  PROVE  Recording' /\ ChainUndoes' /\ MarksInOrder' /\ MarksKeepTrees' /\ TargetIsAhead'
<1> DEFINE n == Len(op_list)
           m == Len(state_stack)
<1>1. /\ remaining = 0 /\ memorizing' = memorizing - 1
      /\ state_stack # <<>>
      /\ state_stack' = Front(state_stack) /\ saved' = Front(saved)
      /\ target' = Last(saved)
      /\ remaining' = RecoverCount(Last(state_stack), n)
      /\ ~(0 < Last(state_stack) /\ n <= Last(state_stack))
      /\ UNCHANGED <<tree, op_list, undoing, trail>>
  BY DEF HRecover, Recover, Idle, Overshoots, LastStateIndex
<1>2. n \in Nat /\ m \in Nat \ {0} /\ Len(saved) = m /\ saved # <<>>
  BY <1>1, LenProperties, EmptySeq DEF HTypeOK, TypeOK, LogInv, LengthsAgree
<1>3. /\ Len(state_stack') = m - 1
      /\ Last(state_stack) = state_stack[m]
      /\ Last(state_stack) \in Nat
      /\ \A i \in 1 .. m - 1 : state_stack'[i] = state_stack[i]
      /\ target' = saved[m]
      /\ \A i \in 1 .. m - 1 : saved'[i] = saved[i]
  BY <1>1, <1>2, PopEnd DEF HTypeOK, TypeOK
<1>4. /\ \A i \in 1 .. m : state_stack[i] \in Nat /\ state_stack[i] <= n
      /\ \A i, j \in 1 .. m : i <= j => state_stack[i] <= state_stack[j]
      /\ state_stack[1] = 0
  BY <1>1, <1>2 DEF LogInv, MarksInOrder, HTypeOK, TypeOK
<1>5. Len(op_list') = n
  BY <1>1
<1>7. \A i \in 1 .. m : saved[i] = TreeAt(state_stack[i])
  BY DEF LogInv, MarksKeepTrees
<1>8. Recording'
  BY <1>1, <1>2, <1>3 DEF LogInv, Recording, HTypeOK, TypeOK
<1>9. ChainUndoes'
  BY <1>1 DEF LogInv, ChainUndoes, TreeAfter
<1> HIDE DEF n, m
<1>10. remaining' = n - state_stack[m]
  BY <1>1, <1>2, <1>3, RecoverCountBounds
<1>11. n - remaining' = state_stack[m]
  BY <1>2, <1>3, <1>10
<1>12. MarksInOrder'
  <2>1. \A i \in 1 .. m - 1 : i \in 1 .. m /\ i <= m /\ m \in 1 .. m
    BY <1>2
  <2>2. \A i \in 1 .. m - 1 : state_stack'[i] <= n - remaining'
    BY <1>3, <1>4, <1>11, <2>1
  <2>3. \A i, j \in 1 .. m - 1 : i <= j => state_stack'[i] <= state_stack'[j]
    BY <1>3, <1>4, <2>1
  <2>4. m - 1 = 0 => remaining' = n
    BY <1>2, <1>4, <1>10
  <2>5. m - 1 > 0 => state_stack'[1] = 0
    BY <1>2, <1>3, <1>4
  <2> QED BY <1>2, <1>3, <1>5, <2>2, <2>3, <2>4, <2>5 DEF MarksInOrder
<1>13. MarksKeepTrees'
  <2> SUFFICES ASSUME NEW i \in 1 .. m - 1
               PROVE  saved'[i] = TreeAt(state_stack[i])'
    BY <1>3 DEF MarksKeepTrees
  <2>1. i \in 1 .. m
    BY <1>2
  <2> QED BY <1>1, <1>3, <1>7, <2>1 DEF TreeAt
<1>14. TargetIsAhead'
  <2>1. m \in 1 .. m
    BY <1>2
  <2>2. saved[m] = TreeAt(state_stack[m])
    BY <1>7, <2>1
  <2>3. TreeAt(Len(op_list) - remaining)' = TreeAt(state_stack[m])
    BY <1>1, <1>5, <1>11 DEF TreeAt
  <2>4. target' # NoTree
    BY <1>2, <1>3, <2>1, NoTreeAssumption DEF HTypeOK
  <2> QED BY <1>3, <2>2, <2>3, <2>4 DEF TargetIsAhead
<1> QED BY <1>8, <1>9, <1>12, <1>13, <1>14

\* While a recover() runs, the operation it undoes is the last link of the chain.
LEMMA HeadUndoes ==
  ASSUME HTypeOK, LogInv, intact, remaining > 0
  PROVE  /\ Len(op_list) > 0
         /\ Undone(Head(op_list), tree) = trail[1]
         /\ ~Raises(Head(op_list), tree)
<1>1. Len(op_list) \in Nat /\ Len(op_list) > 0
  BY LenProperties DEF HTypeOK, TypeOK
<1>2. Head(op_list) = op_list[1]
  BY <1>1, PopHead DEF HTypeOK, TypeOK
<1>3. 1 \in 1 .. Len(op_list) /\ TreeAfter(1) = tree
  BY <1>1 DEF TreeAfter
<1>4. Undone(op_list[1], tree) = trail[1] /\ ~Raises(op_list[1], tree)
  BY <1>3 DEF LogInv, ChainUndoes
<1> QED BY <1>1, <1>2, <1>4

\* An undo() takes the last link off the chain, and lands on the tree before it.
LEMMA UndoStep ==
  ASSUME HTypeOK, LogInv, intact, HUndo
  PROVE  Recording' /\ ChainUndoes' /\ MarksInOrder' /\ MarksKeepTrees' /\ TargetIsAhead'
<1> DEFINE n == Len(op_list)
           m == Len(state_stack)
           r == remaining
<1>1. /\ r > 0 /\ undoing' = FALSE /\ remaining' = r - 1
      /\ tree' = Undone(Head(op_list), tree)
      /\ op_list' = Tail(op_list) /\ trail' = Tail(trail)
      /\ UNCHANGED <<state_stack, memorizing, saved, target, intact>>
  BY DEF HUndo, Undo
<1>2. n \in Nat \ {0} /\ m \in Nat /\ Len(trail) = n /\ r \in 1 .. n
  BY <1>1, LenProperties DEF HTypeOK, TypeOK, LogInv, LengthsAgree
<1>3. /\ Len(op_list') = n - 1
      /\ \A i \in 1 .. n - 1 : op_list'[i] = op_list[i + 1]
      /\ \A i \in 1 .. n - 1 : trail'[i] = trail[i + 1]
  BY <1>1, <1>2, PopHead DEF HTypeOK, TypeOK
<1>4. tree' = trail[1]
  BY <1>1, HeadUndoes
<1>5. Recording'
  BY <1>1 DEF LogInv, Recording
<1>6. \A i \in 1 .. n : /\ Undone(op_list[i], TreeAfter(i)) = trail[i]
                        /\ ~Raises(op_list[i], TreeAfter(i))
  BY DEF LogInv, ChainUndoes
<1>7. /\ \A i \in 1 .. m : state_stack[i] \in Nat /\ state_stack[i] <= n - r
      /\ \A i, j \in 1 .. m : i <= j => state_stack[i] <= state_stack[j]
      /\ m = 0 => r = n
      /\ m > 0 => state_stack[1] = 0
  BY DEF LogInv, MarksInOrder, HTypeOK, TypeOK
<1>8. ASSUME NEW k \in 0 .. n - 1
      PROVE  TreeAt(k)' = TreeAt(k)
  <2>1. TreeAt(k) = trail[n - k]
    BY <1>2 DEF TreeAt
  <2>2. CASE k = n - 1
    <3>1. n - k = 1 /\ TreeAt(k)' = tree'
      BY <1>2, <1>3, <2>2 DEF TreeAt
    <3> QED BY <1>4, <2>1, <3>1
  <2>3. CASE k # n - 1
    <3>1. TreeAt(k)' = trail'[n - 1 - k]
      BY <1>3, <1>2, <2>3 DEF TreeAt
    <3>2. PICK j \in 1 .. n - 1 : j = n - 1 - k /\ j + 1 = n - k
      <4>1. n - 1 - k \in 1 .. n - 1 /\ (n - 1 - k) + 1 = n - k
        BY <1>2, <2>3
      <4> QED BY <4>1
    <3>3. trail'[j] = trail[j + 1]
      BY <1>3
    <3> QED BY <2>1, <3>1, <3>2, <3>3
  <2> QED BY <2>2, <2>3
<1>9. \A i \in 1 .. m : saved[i] = TreeAt(state_stack[i])
  BY DEF LogInv, MarksKeepTrees
<1>10. target # NoTree /\ target = TreeAt(n - r)
  BY <1>1 DEF LogInv, TargetIsAhead
<1>11. ChainUndoes'
  <2> SUFFICES ASSUME NEW i \in 1 .. n - 1
               PROVE  /\ Undone(op_list'[i], TreeAfter(i)') = trail'[i]
                      /\ ~Raises(op_list'[i], TreeAfter(i)')
    BY <1>3 DEF ChainUndoes
  <2>1. i + 1 \in 1 .. n
    BY <1>2
  <2>2. TreeAfter(i)' = TreeAfter(i + 1)
    <3>1. TreeAfter(i + 1) = trail[i]
      BY <1>2 DEF TreeAfter
    <3>2. CASE i = 1
      BY <1>4, <3>1, <3>2 DEF TreeAfter
    <3>3. CASE i # 1
      <4>1. PICK j \in 1 .. n - 1 : j = i - 1 /\ j + 1 = i
        BY <1>2, <3>3
      <4>2. TreeAfter(i)' = trail'[j]
        BY <3>3, <4>1 DEF TreeAfter
      <4> QED BY <1>3, <3>1, <4>1, <4>2
    <3> QED BY <3>2, <3>3
  <2> QED BY <1>3, <1>6, <2>1, <2>2
<1>12. n - 1 - remaining' = n - r /\ n - r \in 0 .. n - 1
  BY <1>1, <1>2
<1> HIDE DEF n, m, r
<1>13. MarksInOrder'
  BY <1>1, <1>2, <1>3, <1>7, <1>12 DEF MarksInOrder, m
<1>14. MarksKeepTrees'
  <2> SUFFICES ASSUME NEW i \in 1 .. m
               PROVE  saved[i] = TreeAt(state_stack[i])'
    BY <1>1 DEF MarksKeepTrees, m
  <2>1. PICK k \in 0 .. n - 1 : k = state_stack[i]
    BY <1>2, <1>7, <1>12
  <2>2. TreeAt(state_stack[i])' = TreeAt(k)'
    BY <1>1, <2>1 DEF TreeAt
  <2> QED BY <1>8, <1>9, <2>1, <2>2
<1>15. TargetIsAhead'
  <2>1. PICK k \in 0 .. n - 1 : k = n - r
    BY <1>12
  <2>2. TreeAt(Len(op_list) - remaining)' = TreeAt(k)'
    BY <1>3, <1>12, <2>1 DEF TreeAt
  <2> QED BY <1>1, <1>8, <1>10, <2>1, <2>2 DEF TargetIsAhead
<1> QED BY <1>5, <1>11, <1>13, <1>14, <1>15

LEMMA LogStep ==
  ASSUME HTypeOK, LogInv, [HNext]_hvars
  PROVE  LogInv'
<1>1. LengthsAgree'
  BY LengthsStep DEF LogInv
<1> SUFFICES ASSUME intact'
             PROVE  Recording' /\ ChainUndoes' /\ MarksInOrder' /\ MarksKeepTrees' /\ TargetIsAhead'
  BY <1>1 DEF LogInv
<1>2. CASE HEdit
  <2>1. PICK op \in Op, u \in Tree : Edits(tree, op, u) /\ HChange(u, op)
    BY <1>2 DEF HEdit
  <2>2. intact
    BY <2>1 DEF HChange
  <2> QED BY <2>1, <2>2, RecordedEditStep, UnrecordedEditStep
<1>3. CASE HSaveState
  BY <1>3, SaveStateStep DEF HSaveState
<1>4. CASE HRecover
  <2>1. intact
    BY <1>4 DEF HRecover
  <2> QED BY <1>4, <2>1, RecoverStep
<1>5. CASE HRecoverRefused
  BY <1>5 DEF HRecoverRefused
<1>6. CASE HUndo
  BY <1>6, UndoStep DEF HUndo
<1>7. CASE HUndoRaises
  <2>1. intact /\ remaining > 0 /\ Raises(Head(op_list), tree)
    BY <1>7 DEF HUndoRaises, UndoRaises
  <2> QED BY <2>1, HeadUndoes
<1>8. CASE HFlush \/ UNCHANGED hvars
  <2>1. intact
    BY <1>8 DEF HFlush, hvars, history
  <2>2. HFlush => op_list = <<>> /\ trail = <<>>
    BY <2>1, EmptySeq DEF HFlush, LogInv, LengthsAgree, HTypeOK
  <2>3. /\ UNCHANGED <<tree, op_list, state_stack, memorizing, undoing, remaining, saved, trail>>
        /\ (target' = NoTree /\ remaining = 0) \/ target' = target
    BY <1>8, <2>2 DEF HFlush, Flush, Idle, hvars, vars, mgr, history
  <2>4. \A k : TreeAt(k)' = TreeAt(k)
    BY <2>3 DEF TreeAt
  <2>5. Recording' /\ ChainUndoes' /\ MarksInOrder'
    BY <2>1, <2>3 DEF LogInv, Recording, ChainUndoes, MarksInOrder, TreeAfter
  <2>6. MarksKeepTrees' /\ TargetIsAhead'
    BY <2>1, <2>3 DEF LogInv, MarksKeepTrees, TargetIsAhead, TreeAt
  <2> QED BY <2>5, <2>6
<1> QED BY <1>2, <1>3, <1>4, <1>5, <1>6, <1>7, <1>8 DEF HNext, HManager

LEMMA LogInit ==
  ASSUME HInit
  PROVE  HTypeOK /\ LogInv
<1> USE BoundsAssumption, NoTreeAssumption DEF HInit, Init, MgrInit, HistoryInit
<1>1. HTypeOK
  <2>1. op_list \in Seq(Op) /\ state_stack \in Seq(Nat) /\ saved \in Seq(Tree) /\ trail \in Seq(Tree)
    BY EmptySeq
  <2>2. memorizing \in Int /\ remaining \in 0 .. Len(op_list)
    BY EmptySeq
  <2>3. undoing \in BOOLEAN /\ intact \in BOOLEAN
    OBVIOUS
  <2> QED BY <2>1, <2>2, <2>3 DEF HTypeOK, TypeOK
<1>2. LogInv
  BY DEF LogInv, LengthsAgree, Recording, ChainUndoes, MarksInOrder, MarksKeepTrees,
         TargetIsAhead
<1> QED BY <1>1, <1>2

\* The manager's and the history variables keep their types, and the log is a
\* chain of trees marked by the pending save_state() calls.
THEOREM LogIsAChain == HSpec => [](HTypeOK /\ LogInv)
<1>1. HInit => HTypeOK /\ LogInv
  BY LogInit
<1>2. HTypeOK /\ LogInv /\ [HNext]_hvars => (HTypeOK /\ LogInv)'
  BY TypeStep, LogStep DEF LogInv
<1> QED BY <1>1, <1>2, PTL DEF HSpec

\* On a chain, the tree is the target of the recover() that has ended.
LEMMA ChainRestores ==
  ASSUME HTypeOK, LogInv
  PROVE  RecoverRestores
<1> SUFFICES ASSUME intact, Idle, target # NoTree
             PROVE  tree = target
  BY DEF RecoverRestores
<1>1. target = TreeAt(Len(op_list) - 0)
  BY DEF LogInv, TargetIsAhead, Idle
<1>2. Len(op_list) - 0 = Len(op_list)
  BY LenProperties DEF HTypeOK, TypeOK
<1> QED BY <1>1, <1>2 DEF TreeAt

\* recover() gives back the tree of the save_state() it answers, as long as the
\* log is intact (Union.recover, SelectionManager.recover).
THEOREM RecoverGivesTheTreeBack == HSpec => []RecoverRestores
<1>1. HTypeOK /\ LogInv => RecoverRestores
  BY ChainRestores
<1> QED BY <1>1, LogIsAChain, PTL

\* No operation raises while an intact log undoes it.
THEOREM IntactLogNeverRaises == HSpec => []UndoNeverRaises
<1>1. HTypeOK /\ LogInv => UndoNeverRaises
  <2> SUFFICES ASSUME HTypeOK, LogInv, intact, ~Idle
               PROVE  ~Raises(Head(op_list), tree)
    BY DEF UndoNeverRaises
  <2>1. remaining > 0
    BY LenProperties DEF Idle, HTypeOK, TypeOK
  <2> QED BY <2>1, HeadUndoes
<1> QED BY <1>1, LogIsAChain, PTL

\* While the log is intact, edits are recorded exactly when a save_state() is
\* pending, and the log is empty when none is.
THEOREM RecordingIsExact == HSpec => []RecordingMatchesSaves
<1>1. HTypeOK /\ LogInv => RecordingMatchesSaves
  <2> SUFFICES ASSUME HTypeOK, LogInv, intact, Idle
               PROVE  /\ ShouldRegisterOp <=> (state_stack # <<>>)
                      /\ (state_stack = <<>>) => (op_list = <<>>)
    BY DEF RecordingMatchesSaves
  <2>1. ~undoing /\ memorizing = Len(state_stack)
    BY DEF LogInv, Recording
  <2>2. (state_stack # <<>>) <=> Len(state_stack) # 0
    BY EmptySeq DEF HTypeOK, TypeOK
  <2>3. (state_stack = <<>>) => (op_list = <<>>)
    BY <2>2, EmptySeq DEF LogInv, MarksInOrder, Idle, HTypeOK, TypeOK
  <2> QED BY <2>1, <2>2, <2>3 DEF ShouldRegisterOp
<1> QED BY <1>1, LogIsAChain, PTL

-----------------------------------------------------------------------------
\* The log implements the stack of snapshots, to a client that keeps it intact.
LEMMA SnapshotStep ==
  ASSUME HTypeOK, LogInv, intact, HNext, intact'
  PROVE  [Snap!Next]_<<Promised, saved>>
<1> USE DEF Snap!Next
<1>1. Idle => Promised = tree
  <2> SUFFICES ASSUME Idle, target # NoTree PROVE target = tree
    BY DEF Promised
  <2>1. Len(op_list) - remaining = Len(op_list)
    BY LenProperties DEF Idle, HTypeOK, TypeOK
  <2> QED BY <2>1 DEF LogInv, TargetIsAhead, TreeAt
<1>2. HTypeOK'
  BY TypeStep DEF LogInv
<1>3. CASE HEdit
  BY <1>2, <1>3 DEF HEdit, HChange, Change, Promised, Snap!Edit, HTypeOK, TypeOK
<1>4. CASE HSaveState
  BY <1>1, <1>4 DEF HSaveState, SaveState, Promised, Snap!Save
<1>5. CASE HRecover
  <2>1. saved # <<>>
    BY <1>5, EmptySeq DEF HRecover, Recover, LogInv, LengthsAgree, HTypeOK, TypeOK
  <2>2. Last(saved) \in Tree
    BY <2>1, PopEnd DEF HTypeOK
  <2>3. Promised' = Last(saved)
    BY <1>5, <2>2, NoTreeAssumption DEF HRecover, Promised
  <2> QED BY <1>5, <2>1, <2>3 DEF HRecover, Snap!Restore, Snap!Last, Snap!Front, Last, Front
<1>6. CASE HRecoverRefused
  BY <1>6 DEF HRecoverRefused
<1>7. CASE HUndo \/ HUndoRaises
  <2>1. remaining > 0 /\ UNCHANGED <<saved, target>>
    BY <1>7 DEF HUndo, Undo, HUndoRaises, UndoRaises
  <2>2. target # NoTree
    BY <2>1 DEF LogInv, TargetIsAhead
  <2> QED BY <2>1, <2>2 DEF Promised
<1>8. CASE HFlush
  BY <1>1, <1>8 DEF HFlush, Flush, Promised
<1> QED BY <1>3, <1>4, <1>5, <1>6, <1>7, <1>8 DEF HNext, HManager

\* save_state(), edits and recover() behave as if save_state() kept a copy of the
\* whole tree, for a client that never overshoots, flushes or recovers too often.
THEOREM LogImplementsSnapshots == DisciplinedSpec => ImplementsSnapshots
<1>1. HInit => HTypeOK /\ LogInv /\ intact /\ Snap!Init
  <2>1. HInit => intact /\ Snap!Init
    BY DEF HInit, Init, HistoryInit, Promised, Snap!Init
  <2> QED BY <2>1, LogInit
<1>2. /\ HTypeOK /\ LogInv /\ intact
      /\ [HNext /\ intact']_hvars
      => /\ (HTypeOK /\ LogInv /\ intact)'
         /\ [Snap!Next]_<<Promised, saved>>
  <2> SUFFICES ASSUME HTypeOK, LogInv, intact, [HNext /\ intact']_hvars
               PROVE  (HTypeOK /\ LogInv /\ intact)' /\ [Snap!Next]_<<Promised, saved>>
    OBVIOUS
  <2>1. HTypeOK' /\ LogInv'
    BY TypeStep, LogStep DEF LogInv
  <2>2. CASE HNext /\ intact'
    BY <2>1, <2>2, SnapshotStep
  <2>3. CASE UNCHANGED hvars
    BY <2>1, <2>3 DEF hvars, vars, history, Promised
  <2> QED BY <2>2, <2>3
<1> QED BY <1>1, <1>2, PTL DEF DisciplinedSpec, ImplementsSnapshots, Snap!Spec
=============================================================================
