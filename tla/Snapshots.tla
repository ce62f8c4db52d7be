----------------------------- MODULE Snapshots -----------------------------
(***************************************************************************)
(* What save_state() and recover() promise a client: a stack of whole      *)
(* copies of the tree.                                                     *)
(***************************************************************************)
EXTENDS Sequences, SequencesExt

CONSTANT Tree

VARIABLES tree, saved

Init == tree \in Tree /\ saved = <<>>

Edit == tree' \in Tree /\ UNCHANGED saved

Save == saved' = Append(saved, tree) /\ UNCHANGED tree

Restore ==
  /\ saved # <<>>
  /\ tree' = Last(saved)
  /\ saved' = Front(saved)

Next == Edit \/ Save \/ Restore

Spec == Init /\ [][Next]_<<tree, saved>>
=============================================================================
