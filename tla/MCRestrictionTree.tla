------------------------- MODULE MCRestrictionTree -------------------------
(***************************************************************************)
(* Small parsed WHERE clauses: a conjunction, an EXISTS over one, a        *)
(* negated disjunction, an EXISTS over a negation and a relation, none.    *)
(***************************************************************************)
EXTENDS RestrictionTree, TLC

CONSTANTS r1, r2, r3, b1, b2, b3, n1, e1

\* The tree with these children; everyone's parent is its holder.
Parsed(where, children) ==
  LET full == [n \in Node |-> IF n \in DOMAIN children THEN children[n] ELSE <<>>]
      holders(n) == {m \in Node : n \in Range(full[m])}
      bare == [where      |-> where,
               children   |-> full,
               parent     |-> [n \in Node |-> IF n = where THEN Select
                                              ELSE IF holders(n) = {} THEN Nil
                                              ELSE CHOOSE m \in holders(n) : TRUE],
               references |-> {}]
  IN  [bare EXCEPT !.references = InTree(bare) \cap Relation]

None == [n \in {} |-> <<>>]

MCParsedTrees ==
  {Parsed(b1, b1 :> <<r1, r2>>),
   Parsed(b1, b1 :> <<r1, e1>> @@ e1 :> <<b2>> @@ b2 :> <<r2, r3>>),
   Parsed(n1, n1 :> <<b1>> @@ b1 :> <<r1, r2>>),
   Parsed(e1, e1 :> <<b1>> @@ b1 :> <<n1, r1>> @@ n1 :> <<r2>>),
   Parsed(Nil, None)}

\* Relations are interchangeable, and so are binary nodes: the CHOOSE of a fresh
\* node takes one that nothing refers to and nothing is remembered of, so
\* another choice gives the same state up to a permutation.
Symmetry == Permutations(Relation) \cup Permutations(Binary)
=============================================================================
