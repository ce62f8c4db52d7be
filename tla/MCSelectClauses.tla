-------------------------- MODULE MCSelectClauses --------------------------
(***************************************************************************)
(* Two variables, with references to X inside a function.                  *)
(***************************************************************************)
EXTENDS SelectClauses, TLC

CONSTANTS X, Y, x1, x2, x3, xf, xg, y1

MCVarOf == [r \in Ref |-> IF r = y1 THEN Y ELSE X]

Parsed(selection, groupby, orderby, where) ==
  LET t == [selection |-> selection, groupby |-> groupby, orderby |-> orderby,
            having |-> <<>>, where |-> {[kind |-> "relation", refs |-> n] : n \in where},
            defined_vars |-> {}, solutions |-> {}, references |-> {}]
      used == {MCVarOf[r] : r \in InTree(t)}
  IN  [t EXCEPT !.references = InTree(t), !.defined_vars = used, !.solutions = used]

\* "Any X GROUPBY X WHERE X r Y" and "Any Y ORDERBY X WHERE X r X"
MCParsedTrees ==
  {Parsed(<<x1>>, <<x2>>, <<>>, {{x3, y1}}),
   Parsed(<<y1>>, <<>>, <<x1>>, {{x2, x3}})}

\* A client that makes at most one call before its save_state(): what other calls
\* would do to the tree first, more parsed trees would show.  Once it has strayed
\* it saves no more.
SavingSpec ==
  Init /\ [][/\ Next
             /\ intact'
             /\ (Log!Idle /\ state_stack = <<>> /\ agenda = <<>> /\ tree \notin MCParsedTrees)
                  => UNCHANGED <<tree, agenda>>
             /\ strayed # {} => Len(state_stack') <= Len(state_stack)]_vars

OneStray == Cardinality(strayed) <= 1
=============================================================================
