--------------------------- MODULE MCTypeResolver ---------------------------
(***************************************************************************)
(* A schema of persons, students, companies and addresses, and queries     *)
(* with and without subqueries.                                            *)
(***************************************************************************)
EXTENDS TypeResolver, TLC

CONSTANTS s0, s1, s2, s3, X, Y, Z, Person, Student, Company, Address, String

MCAssociations ==
  "located"   :> {<<Person, Address>>, <<Student, Address>>, <<Company, Address>>}
  @@ "works_for" :> {<<Person, Company>>, <<Student, Company>>}
  @@ "friend"    :> {<<Person, Person>>, <<Person, Student>>, <<Student, Student>>}
  @@ "identity"  :> {<<t, t>> : t \in Type \ Final}
  @@ "name"      :> {<<Person, String>>, <<Company, String>>}

MCSpecialized == [t \in Type |-> IF t = Person THEN {Student} ELSE {}]

Is(v, ts)       == [rtype |-> "is", lhs |-> v, types |-> ts, neged |-> FALSE]
IsInstance(v, ts) == [Is(v, ts) EXCEPT !.rtype = "is_instance_of"]
Rel(v, r, w)    == [rtype |-> r, lhs |-> v, rhs |-> w, neged |-> FALSE, equal |-> TRUE]
Neg(rel)        == [rel EXCEPT !.neged = TRUE]
Unequal(rel)    == [rel EXCEPT !.equal = FALSE]

Fill(f, default) == [s \in Select |-> IF s \in DOMAIN f THEN f[s] ELSE default]

Q(where, subquery, aliases, variables, columns, edits) ==
  [tree  |-> [where |-> Fill(where, {}), subquery |-> [s \in Select |-> Range(Fill(subquery, <<>>)[s])]],
   query |-> [top |-> <<s0>>, with |-> Fill(subquery, <<>>),
              vars |-> Fill(variables, {}), aliases |-> Fill(aliases, <<>>),
              columns |-> Fill(columns, <<>>), edits |-> edits]]

On(s, rels) == {<<s, rel>> : rel \in rels}

Nothing == [s \in {} |-> <<>>]

MCQueries == {
  \* Any X WHERE X works_for Y, with constants, negations and uids.
  Q(s0 :> {Rel(X, "works_for", Y)}, Nothing, Nothing, s0 :> {X, Y}, s0 :> <<X>>,
    On(s0, {Is(X, {Person, Address}), Rel(X, "friend", Student), Neg(Rel(X, "name", Company))})),
  \* Any X, Y
  Q(s0 :> {}, Nothing, Nothing, s0 :> {X, Y}, s0 :> <<X, Y>>,
    On(s0, {Rel(X, "friend", X), Neg(IsInstance(X, {Person})), Rel(X, "name", Student)})),
  \* Any X WHERE NOT X identity Y, ...
  Q(s0 :> {Neg(Rel(X, "identity", Y)), Rel(Student, "friend", Y)}, Nothing, Nothing, s0 :> {X, Y}, s0 :> <<X>>,
    On(s0, {Rel(X, "works_for", Null), Neg(Rel(X, "works_for", Y)), Unequal(Rel(X, "name", Company))})),
  \* Any Y WITH Y BEING ((Any X WHERE X is Person) UNION (Any X WHERE X located Y))
  Q(s1 :> {Is(X, {Person})} @@ s2 :> {Rel(X, "located", Y)}, s0 :> <<s1, s2>>, s0 :> <<Y>>,
    s1 :> {X} @@ s2 :> {X, Y}, s0 :> <<Y>> @@ s1 :> <<X>> @@ s2 :> <<X>>,
    On(s0, {Is(Y, {Company}), Is(Y, {Address})}) \cup On(s2, {Rel(X, "name", Expr)})),
  \* Any Y WITH Y BEING ((Any 1) UNION (Any X WHERE X works_for Y))
  Q(s2 :> {Rel(X, "works_for", Y)}, s0 :> <<s1, s2>>, s0 :> <<Y>>,
    s2 :> {X, Y}, s0 :> <<Y>> @@ s1 :> <<String>> @@ s2 :> <<Y>>,
    On(s0, {Is(Y, {Company}), Is(Y, {String})})),
  \* Any Y WITH Y BEING ((Any X WHERE X is Person) UNION (Any X WHERE X works_for Y)), with a uid
  Q(s1 :> {Is(X, {Person, Company})} @@ s2 :> {Rel(X, "works_for", Y)}, s0 :> <<s1, s2>>, s0 :> <<Y>>,
    s1 :> {X} @@ s2 :> {X, Y}, s0 :> <<Y>> @@ s1 :> <<X>> @@ s2 :> <<X>>,
    On(s0, {Rel(Y, "name", Company)})),
  \* (Any X WHERE X is Person) UNION (Any X WHERE X works_for Y)
  [Q(s0 :> {Is(X, {Person})} @@ s1 :> {Rel(X, "works_for", Y)}, Nothing, Nothing,
     s0 :> {X} @@ s1 :> {X, Y}, s0 :> <<X>> @@ s1 :> <<X>>,
     On(s1, {Is(Y, {Person}), Rel(X, "name", Company)})) EXCEPT !.query.top = <<s0, s1>>],
  \* two columns
  Q(s1 :> {Rel(X, "works_for", Y)} @@ s2 :> {Rel(X, "located", Y)}, s0 :> <<s1, s2>>, s0 :> <<X, Y>>,
    s1 :> {X, Y} @@ s2 :> {X, Y}, s0 :> <<X>> @@ s1 :> <<X, Y>> @@ s2 :> <<X, Y>>,
    On(s0, {Rel(X, "works_for", Y), Is(Y, {Address})})),
  \* a subquery of a subquery
  Q(s2 :> {Rel(X, "located", Y)} @@ s3 :> {Is(X, {Company, Person})} ,
    s0 :> <<s1>> @@ s1 :> <<s2, s3>>, s0 :> <<Z>> @@ s1 :> <<Z>>,
    s2 :> {X, Y} @@ s3 :> {X}, s0 :> <<Z>> @@ s1 :> <<Z>> @@ s2 :> <<X>> @@ s3 :> <<X>>,
    On(s0, {Is(Z, {Person}), Rel(Z, "works_for", Expr)}))
}
=============================================================================
