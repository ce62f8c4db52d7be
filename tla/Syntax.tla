------------------------------- MODULE Syntax -------------------------------
(***************************************************************************)
(* The syntax trees of RQL (rql/nodes.py and rql/stmts.py): how they are   *)
(* written as text, and what copy() makes of them.                         *)
(*                                                                         *)
(* A text is a sequence of words.  A node is a record of its class, what it *)
(* carries besides its children (an operator, a name, a value), the outer  *)
(* join marks and its children.  A statement is a record of its clauses and *)
(* of the names it knows; what depends on the schema is elsewhere.         *)
(***************************************************************************)
EXTENDS Naturals, Sequences, SequencesExt

-----------------------------------------------------------------------------
\* Nodes and statements.

Node(class, what, kids) == [class |-> class, what |-> what, optional |-> "none", kids |-> kids]

\* What Relation.set_optional leaves: a second side makes "both".
SetOptional(n, side) ==
  [n EXCEPT !.optional = CASE side = "none" -> @
                           [] @ # "none" /\ @ # side -> "both"
                           [] OTHER -> side]

\* A statement as its constructor makes it; a clause that is a single node is a
\* sequence of at most one.
NewStatement(type) ==
  [type |-> type, distinct |-> FALSE, limit |-> "none", offset |-> "0",
   main_variables |-> <<>>, main_relations |-> <<>>, selection |-> <<>>,
   groupby |-> <<>>, orderby |-> <<>>, where |-> <<>>, having |-> <<>>, with |-> <<>>,
   defined_vars |-> {}, aliases |-> {}, references |-> <<>>]

\* get_variable(name): the alias or the variable of that name, made if need be.
GetVariable(s, name) ==
  [s EXCEPT !.defined_vars = IF name \in s.aliases THEN @ ELSE @ \cup {name}]

\* Mutant of GetAlias: the variable stays.
GetAliasBeside(s, name) == [s EXCEPT !.aliases = @ \cup {name}]

\* get_variable(name, colnum): an alias takes the place of a variable of its name,
\* with its references.
GetAlias(s, name) ==
  [s EXCEPT !.aliases = @ \cup {name}, !.defined_vars = @ \ {name}]

\* VariableRef(variable) registers itself.
AddReference(s, name) ==
  [s EXCEPT !.references = (name :> IF name \in DOMAIN @ THEN @[name] + 1 ELSE 1) @@ @]

AddRestriction(s, relation) ==
  [s EXCEPT !.where = IF @ = <<>> THEN <<relation>>
                      ELSE <<Node("And", "", @ \o <<relation>>)>>]

TypeRestriction(name, etype) ==
  Node("Relation", "is",
       <<Node("VariableRef", name, <<>>), Node("Comparison", "=", <<Node("Etype", etype, <<>>)>>)>>)

IsStatement(x) == "type" \in DOMAIN x

\* The children of a statement.
Children(s) ==
  s.main_variables \o s.main_relations \o s.selection \o s.groupby \o s.orderby
    \o s.where \o s.having \o s.with

\* The children of a node or a statement, and all that is below it.
Kids(x) ==
  IF IsStatement(x) THEN Children(x) ELSE IF x.class = "SubQuery" THEN Append(x.kids, x.query) ELSE x.kids

RECURSIVE Subtree(_)
Subtree(x) == {x} \cup UNION {Subtree(kid) : kid \in Range(Kids(x))}

\* The nodes of a class in a tree.
GetNodes(x, class) == {n \in Subtree(x) : ~IsStatement(n) /\ n.class = class}

-----------------------------------------------------------------------------
\* as_string()

Joined(sep, parts) ==
  FoldLeft(LAMBDA text, part : IF text = <<>> THEN part ELSE text \o <<sep>> \o part, <<>>, parts)
Commas(parts) == Joined(",", parts)
Clause(word, parts) == IF parts = <<>> THEN <<>> ELSE <<word>> \o Commas(parts)

\* A parenthesis that touches the word before it, and one that a space separates from it.
Paren == {"(", " ("}
InParens(text) == <<" (">> \o text \o <<")">>
InTightParens(text) == <<"(">> \o text \o <<")">>

Mark(n, sides) == IF n.optional \in sides THEN <<"?">> ELSE <<>>
LeftMark(n) == Mark(n, {"left", "both"})
RightMark(n) == Mark(n, {"right", "both"})

RECURSIVE NodeText(_), StatementText(_)

Texts(nodes) == [i \in DOMAIN nodes |-> NodeText(nodes[i])]

UnionText(u) ==
  IF Len(u.kids) = 1 THEN StatementText(u.kids[1])
  ELSE Joined("UNION", [i \in DOMAIN u.kids |-> InParens(StatementText(u.kids[i]))])

RelationText(n) ==
  NodeText(n.kids[1]) \o LeftMark(n) \o <<n.what>> \o NodeText(n.kids[2]) \o RightMark(n)

ComparisonText(n) ==
  IF Len(n.kids) = 2
  THEN NodeText(n.kids[1]) \o LeftMark(n) \o <<n.what>> \o NodeText(n.kids[2]) \o RightMark(n)
  ELSE (IF n.what = "=" THEN <<>> ELSE <<n.what>>) \o NodeText(n.kids[1])

\* Mutant of NotText: no parentheses.
NotTextBare(n) == <<"NOT">> \o NodeText(n.kids[1])

NotText(n) ==
  <<"NOT">> \o (IF n.kids[1].class \in {"Exists", "Relation"} THEN NodeText(n.kids[1])
                ELSE InParens(NodeText(n.kids[1])))

NodeText(n) ==
  CASE n.class = "And"        -> Commas(Texts(n.kids))
    [] n.class = "Or"         -> InParens(NodeText(n.kids[1])) \o <<"OR">> \o InParens(NodeText(n.kids[2]))
    [] n.class = "Not"        -> NotText(n)
    [] n.class = "Exists"     -> <<"EXISTS">> \o InTightParens(NodeText(n.kids[1]))
    [] n.class = "Relation"   -> RelationText(n)
    [] n.class = "Comparison" -> ComparisonText(n)
    [] n.class = "MathExpression"  -> InParens(NodeText(n.kids[1]) \o <<n.what>> \o NodeText(n.kids[2]))
    [] n.class = "UnaryExpression" -> <<n.what>> \o NodeText(n.kids[1])
    [] n.class = "Function"   -> <<n.what>> \o InTightParens(Commas(Texts(n.kids)))
    [] n.class = "SortTerm"   -> NodeText(n.kids[1]) \o (IF n.what = "ASC" THEN <<>> ELSE <<"DESC">>)
    [] n.class = "SubQuery"   -> Commas(Texts(n.kids)) \o <<"BEING">> \o InParens(UnionText(n.query))
    [] n.class = "MainVariable" -> <<n.what>> \o NodeText(n.kids[1])
    [] n.class \in {"VariableRef", "Constant", "Etype"} -> <<n.what>>

SelectText(s) ==
  (IF s.distinct THEN <<"DISTINCT", "Any">> ELSE <<"Any">>)
    \o Commas(Texts(s.selection))
    \o Clause("GROUPBY", Texts(s.groupby)) \o Clause("ORDERBY", Texts(s.orderby))
    \o (IF s.limit = "none" THEN <<>> ELSE <<"LIMIT", s.limit>>)
    \o (IF s.offset = "0" THEN <<>> ELSE <<"OFFSET", s.offset>>)
    \o Clause("WHERE", Texts(s.where)) \o Clause("HAVING", Texts(s.having))
    \o Clause("WITH", Texts(s.with))

DeleteText(s) ==
  <<"DELETE">> \o Commas(Texts(s.main_variables) \o Texts(s.main_relations))
    \o Clause("WHERE", Texts(s.where)) \o Clause("HAVING", Texts(s.having))

InsertText(s) ==
  <<"INSERT">> \o Commas(Texts(s.main_variables)) \o Clause(":", Texts(s.main_relations))
    \o Clause("WHERE", Texts(s.where)) \o Clause("HAVING", Texts(s.having))

SetText(s) ==
  <<"SET">> \o Commas(Texts(s.main_relations))
    \o Clause("WHERE", Texts(s.where)) \o Clause("HAVING", Texts(s.having))

StatementText(s) ==
  CASE s.type = "select" -> SelectText(s)
    [] s.type = "delete" -> DeleteText(s)
    [] s.type = "insert" -> InsertText(s)
    [] s.type = "set"    -> SetText(s)

\* The root is a Union, or a statement that changes data.
Text(root) == IF IsStatement(root) THEN StatementText(root) ELSE UnionText(root)

-----------------------------------------------------------------------------
\* copy()

RECURSIVE NamesIn(_)
\* The names that a node refers to, once per reference.
NamesIn(n) ==
  IF n.class = "VariableRef" THEN <<n.what>>
  ELSE FlattenSeq([i \in DOMAIN n.kids |-> NamesIn(n.kids[i])])

NamesOf(nodes) == FlattenSeq([i \in DOMAIN nodes |-> NamesIn(nodes[i])])

\* VariableRef.copy(): the new statement's variable of that name, an alias for an alias.
CopyReference(old, s, name) ==
  AddReference(IF name \in old.aliases THEN GetAlias(s, name) ELSE GetVariable(s, name), name)

CopyReferences(old, s, nodes) ==
  FoldLeft(LAMBDA new, name : CopyReference(old, new, name), s, NamesOf(nodes))

RECURSIVE CopyUnion(_)

CopySubquery(n) == [n EXCEPT !.query = CopyUnion(n.query)]

\* Mutant of CopyStatement: the HAVING clause is forgotten.
CopyStatementHavingNot(old) ==
  LET bare == [old EXCEPT !.defined_vars = {}, !.aliases = {}, !.references = <<>>, !.having = <<>>]
  IN  CopyReferences(old, bare, Children(bare))

\* The subqueries are copied first; add_subquery asks for their aliases once more.
CopyStatement(old) ==
  LET bare == [old EXCEPT !.defined_vars = {}, !.aliases = {}, !.references = <<>>,
                          !.with = [i \in DOMAIN @ |-> CopySubquery(@[i])]]
      aliased == FoldLeft(LAMBDA s, name : GetAlias(s, name),
                          CopyReferences(old, bare, old.with), NamesOf(old.with))
  IN  CopyReferences(old, aliased, Children([old EXCEPT !.with = <<>>]))

CopyUnion(u) == [u EXCEPT !.kids = [i \in DOMAIN @ |-> CopyStatement(@[i])]]

Copy(root) == IF IsStatement(root) THEN CopyStatement(root) ELSE CopyUnion(root)

\* The constructor of the copy of a relation refuses "both", which only set_optional makes.
CopyRaises(root) == \E n \in GetNodes(root, "Relation") : n.optional = "both"
=============================================================================
