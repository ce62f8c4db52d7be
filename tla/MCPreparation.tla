--------------------------- MODULE MCPreparation ---------------------------
EXTENDS Preparation

V(name) == Node("VariableRef", name, <<>>)
Rel(rtype, name, rhs) == Node("Relation", rtype, <<V(name), Node("Comparison", "=", <<rhs>>)>>)
R(rtype, v, w) == Rel(rtype, v, V(w))
Eid(v) == Rel("eid", v, Node("Constant", "1", <<>>))
EidIn(v) == Rel("eid", v, Node("Function", "IN", <<Node("Constant", "1", <<>>)>>))
Is(v) == Rel("is", v, Node("Etype", "Person", <<>>))
Left(rel) == [rel EXCEPT !.optional = "left"]
Right(rel) == [rel EXCEPT !.optional = "right"]
And(a, b) == Node("And", "", <<a, b>>)
Or(a, b) == Node("Or", "", <<a, b>>)
Not(a) == Node("Not", "", <<a>>)
Ex(a) == Node("Exists", "", <<a>>)

Select(selection, groupby, orderby, where, having, distinct) ==
  [NewStatement("select") EXCEPT !.selection = selection, !.groupby = groupby, !.where = where,
     !.orderby = [i \in DOMAIN orderby |-> Node("SortTerm", "ASC", <<orderby[i]>>)],
     !.having = having, !.distinct = distinct]
Where(where) == Select(<<V("X")>>, <<>>, <<>>, <<where>>, <<>>, FALSE)


\* One relation of one or two variables, on its own, under a NOT, in an EXISTS.
Atoms == {Eid("X"), EidIn("X"), Eid("Y"), R("r", "X", "Y"), R("s", "X", "Y"), R("s", "Y", "X"), R("i", "Y", "X"),
          R("i", "X", "Y"), R("n", "X", "N"), Is("Y")}
Lone == Atoms \cup {Not(a) : a \in Atoms} \cup {Ex(a) : a \in Atoms}
Conjunctions == {Where(And(a, b)) : a \in Lone, b \in Lone}

\* Two relations in one scope, beside a third.
Some == {Eid("X"), Eid("Y"), R("r", "X", "Y"), R("s", "X", "Y"), R("s", "Y", "X"), R("i", "Y", "X"), Is("Y")}
Nested == UNION {{Not(And(a, b)), Ex(And(a, b)), Not(Ex(And(a, b))), Or(a, b), Ex(Or(a, b)), Or(a, Ex(b)), Ex(Not(Or(a, b)))} :
                   a \in Some, b \in Some}
Nestings == {Where(n) : n \in Nested}
              \cup UNION {{Where(And(n, a)), Where(And(a, n))} : n \in Nested, a \in {Eid("Y"), R("r", "X", "Y")}}

\* Outer joins.
Joins == UNION {{Left(a), Right(a)} : a \in {R("r", "X", "Y"), R("i", "X", "Y"), R("n", "Y", "N")}} \cup {Right(Is("Y"))}
Outer == UNION {{Where(And(a, j)), Where(And(a, Ex(j))), Where(And(Ex(j), a)), Where(And(a, Not(j))),
                 Where(And(a, Ex(And(b, j))))} :
                  a \in {Eid("X"), Eid("Y"), R("r", "X", "Y"), R("n", "Y", "N")},
                  b \in {Eid("Y"), R("i", "Y", "X"), R("n", "X", "N")}, j \in Joins}

\* The other clauses.
Call(name, v) == Node("Function", name, <<V(v)>>)
Terms == {V("X"), V("Y"), Call("MAX", "X")}
Clauses_ == {Select(<<t1>>, groupby, orderby, <<And(Eid("X"), R("r", "X", "Y"))>>, having, FALSE) :
               t1 \in Terms, groupby \in {<<>>, <<V("X")>>, <<V("Y"), V("X")>>},
               orderby \in {<<>>, <<V("X")>>, <<Call("LOWER", "X"), V("Y")>>},
               having \in {<<>>, <<Node("Comparison", ">", <<Call("MAX", "Y"), V("Y")>>)>>}}

\* Sorts on what is not selected.
Links == {R("i", "X", "Y"), R("i", "Y", "X"), R("r", "X", "Y"), R("n", "X", "N"), R("n", "Y", "N"), R("i", "X", "N")}
Sorts == {Select(<<V(v)>>, <<>>, <<V(w)>>, <<And(a, b)>>, <<>>, TRUE) :
            v \in {"X", "N"}, w \in {"X", "Y", "N"}, a \in Links, b \in Links}

MCQueries == Conjunctions \cup Nestings \cup Outer \cup Clauses_ \cup Sorts
\* The eid relation of a variable of the statement, in an EXISTS that is ored.
MCOred == {Where(Or(Ex(And(Eid("X"), R("r", "X", "Y"))), a)) : a \in {R("r", "X", "Y"), R("s", "X", "Y"), R("i", "X", "Y")}}

MCEntities == {"1", "2"}
Pair == MCEntities \X MCEntities
Inverse_(rel) == {<<p[2], p[1]>> : p \in rel}
Single(rel) == {p \in rel : p[2] = "1" \/ <<p[1], "1">> \notin rel}
Equal == {<<e, e>> : e \in MCEntities}
MCDatabases == {[r |-> rel, s |-> rel \cup Inverse_(rel), i |-> Single(rel), n |-> Single(Inverse_(rel)),
                 eid |-> Equal, identity |-> Equal] : rel \in SUBSET Pair}
\* Of a final relation the schema says that a value has one subject (cardinality "?1").
MCCardinality1 == {<<"i", 1>>, <<"n", 1>>, <<"n", 2>>, <<"eid", 1>>, <<"eid", 2>>, <<"identity", 1>>, <<"identity", 2>>}
=============================================================================
