----------------------------- MODULE Annotator -----------------------------
(***************************************************************************)
(* RQLSTAnnotator.annotate() on a SELECT (rql/stcheck.py): what the text   *)
(* generators need to know of each variable, its scope and relations, and  *)
(* the rewriting of a variable that an EXISTS shares with the statement    *)
(* and uses on the outer side of a join.                                   *)
(***************************************************************************)
EXTENDS Checker

\* _set_scope: the innermost scope of all the places where the variable is used.
SetScope(s, name, scope) ==
  [s EXCEPT !.stinfo[name].scope =
     CASE scope = Stmt \/ @ = {} -> {scope}
       [] @ \in {{Stmt}, {scope}} -> @
       [] OTHER -> {ScopeOf(s, CommonParent(s, CHOOSE old \in @ : TRUE, scope))}]

BlocSimplification(s, name, node) == [s EXCEPT !.stinfo[name].blocsimplification = @ \cup {node}]
AddOptionalRelation(s, name, r) == [s EXCEPT !.stinfo[name].optrelations = @ \cup {r}]

\* The variable that a relation is about, "" if it is a constant.
Owner(s, r) == IF IsVariable(s, Lhs(s, r)) THEN Variable(s, Lhs(s, r)) ELSE ""

\* update_attrvars: the variable is the value of an attribute of the owner, which is the main
\* one unless it is in an EXISTS.
UpdateAttrvars(s, name, r, owner) ==
  LET lhs == IF owner = "" THEN "const" ELSE owner
      first == s.stinfo[name].attrvar = "" \/ ScopeOf(s, r) = Stmt
  IN  IF s.stinfo[name].relations \subseteq s.stinfo[name].rhsrelations
      THEN [s EXCEPT !.stinfo[name].attrvars = @ \cup {<<owner, s.nodes[r].what>>},
                     !.stinfo[name].attrvar = IF first THEN lhs ELSE @]
      ELSE [s EXCEPT !.raised = TRUE]

-----------------------------------------------------------------------------
\* rewrite_shared_optional

Letters == <<"A", "B", "C", "D">>

RECURSIVE MadeVariable(_)
\* make_variable(): the names in the order of rqlvar_maker, whose index is kept.
MadeVariable(s) ==
  LET name == Letters[s.index + 1]
      next == [s EXCEPT !.index = @ + 1]
  IN  IF name \in Range(s.defined_vars) THEN MadeVariable(next) ELSE Defined(next, name)

\* A VariableRef of another variable in the place of one.
InPlace(made, parent, vref) == Replaced(made, parent, vref, Newest(made))
PutReference(s, newvar, vref) ==
  InPlace(Made(Unregistered(s, {vref}), "VariableRef", newvar, "none", 0), Parent(s, vref), vref)

\* What is known of the relation, as far as it is known yet.
MoveKnown(s, var, newvar, rel) ==
  LET move(t, field) == LET moved == t.stinfo[var][field] \cap {rel}
                        IN  [t EXCEPT !.stinfo[var][field] = @ \ moved, !.stinfo[newvar][field] = @ \cup moved]
      pass(t, field) == IF t.stinfo[var][field] # rel THEN t
                        ELSE [t EXCEPT !.stinfo[newvar][field] = rel, !.stinfo[var][field] = 0]
  IN  FoldLeft(pass, FoldLeft(move, s, <<"rhsrelations", "relations", "optrelations", "blocsimplification">>),
               <<"uidrel", "typerel">>)

\* Mutant of MovedReference: what is known of the relation stays with the former variable.
MovedReferenceAlone(s, var, newvar, vref) == PutReference(s, newvar, vref)

\* A reference in the EXISTS becomes one to the new variable, and what is known of its
\* relation moves from the one variable to the other.  What attributes the variable is the
\* value of stays: the code asks whether the reference is the relation's right-hand side
\* after it has put another one there.
MovedReference(s, var, newvar, vref) ==
  MoveKnown(PutReference(s, newvar, vref), var, newvar, RelationOf(s, vref))

\* exists.add_relation(var, 'identity', newvar)
AddIdentity(s, exists, var, newvar) ==
  LET query == s.nodes[exists].kids[1]
      and == Newest(s) + 1
      t == Appended(Made(s, "And", "", "none", exists), and, query)
      u == Grown(t, Node("Relation", "identity",
                         <<Node("VariableRef", var, <<>>),
                           Node("Comparison", "=", <<Node("VariableRef", newvar, <<>>)>>)>>), and)
  IN  [Appended(u, and, and + 1) EXCEPT !.nodes[exists].kids = <<and>>]

RECURSIVE AnnotateRelation(_, _, _)

Identify(s, exists, var, newvar) == AnnotateRelation(AddIdentity(s, exists, var, newvar), Newest(s) + 2, exists)

\* The references in the EXISTS become ones to the last variable of the statement.
Renamed(s, exists, var) ==
  LET newvar == Last(s.defined_vars)
      vrefs == {vref \in s.stinfo[var].references : ScopeOf(s, vref) = exists}
      moved == FoldSet(LAMBDA vref, t : MovedReference(t, var, newvar, vref), s, vrefs)
  IN  Identify([moved EXCEPT !.stinfo[newvar].constnode = s.stinfo[var].constnode], exists, var, newvar)

RewriteSharedOptional(s, exists, var) == Renamed(MadeVariable(s), exists, var)

-----------------------------------------------------------------------------
\* The visit.

Marked(s, r, side) == s.nodes[r].optional \in {side, "both"}

\* One side of an outer join is kept from being simplified.
NoteSide(s, r, name, side) ==
  IF Marked(s, r, side) THEN AddOptionalRelation(BlocSimplification(s, name, r), name, r)
  ELSE BlocSimplification(s, name, r)

\* The same after a rewriting of s, of the variable that was made first.
NoteRewritten(s, rewritten, r, side) ==
  NoteSide(rewritten, r, rewritten.defined_vars[Len(s.defined_vars) + 1], side)

\* Mutant of OptionalSide: rewritten whether the statement shares the variable or not.
OptionalSideAlways(s, r, name, side) ==
  IF ScopeOf(s, r) # Stmt THEN NoteRewritten(s, RewriteSharedOptional(s, ScopeOf(s, r), name), r, side)
  ELSE NoteSide(s, r, name, side)

\* Mutant of OptionalSide: only the marked side is rewritten.
OptionalSideMarked(s, r, name, side) ==
  IF ScopeOf(s, r) # Stmt /\ s.stinfo[name].scope = {Stmt} /\ Marked(s, r, side)
  THEN NoteRewritten(s, RewriteSharedOptional(s, ScopeOf(s, r), name), r, side)
  ELSE NoteSide(s, r, name, side)

\* In an EXISTS, a variable that the statement shares is rewritten.
OptionalSide(s, r, name, side) ==
  IF ScopeOf(s, r) # Stmt /\ s.stinfo[name].scope = {Stmt}
  THEN NoteRewritten(s, RewriteSharedOptional(s, ScopeOf(s, r), name), r, side)
  ELSE NoteSide(s, r, name, side)

Optionals(s, r) ==
  LET left(t) == IF IsVariable(t, Lhs(t, r)) THEN OptionalSide(t, r, Variable(t, Lhs(t, r)), "left") ELSE t
      right(t) == IF IsVariable(t, Rhs(t, r)) THEN OptionalSide(t, r, Variable(t, Rhs(t, r)), "right") ELSE t
  IN  IF s.nodes[r].optional = "none" THEN s ELSE right(left(s))

\* Mutant of Subject: the constant is kept under a NOT or an OR too.
SubjectUncertain(s, r, scope) ==
  LET name == Variable(s, Lhs(s, r))
      t == [SetScope(s, name, scope) EXCEPT !.stinfo[name].relations = @ \cup {r}]
  IN  IF s.nodes[r].what = "eid" /\ Of(s, Rhs(s, r)) = "Constant"
      THEN [t EXCEPT !.stinfo[name].constnode = Rhs(s, r)] ELSE t

Subject(s, r, scope) ==
  LET name == Variable(s, Lhs(s, r))
      rtype == s.nodes[r].what
      t == [SetScope(s, name, scope) EXCEPT !.stinfo[name].relations = @ \cup {r}]
      certain == ~(Operator(s, r) # "=" \/ (Parent(s, r) # Stmt /\ Of(s, Parent(s, r)) = "Not")
                     \/ Ored(s, Parent(s, r)))
      u == IF rtype # "eid" \/ ~certain \/ Of(s, Rhs(s, r)) # "Constant" THEN t
           ELSE [t EXCEPT !.stinfo[name].constnode = Rhs(s, r)]
      v == IF rtype # "eid" \/ ~certain \/ IsVariable(s, Rhs(s, r)) THEN u
           ELSE [u EXCEPT !.stinfo[name].uidrel = r]
  IN  IF rtype # "eid" /\ rtype \in Final \cup Inlined THEN BlocSimplification(v, name, r) ELSE v

Object(s, r, scope, owner, vref) ==
  LET name == Variable(s, vref)
      t == [SetScope(s, name, scope) EXCEPT !.stinfo[name].relations = @ \cup {r},
                                            !.stinfo[name].rhsrelations = @ \cup {r}]
  IN  IF vref = Rhs(s, r) /\ s.nodes[r].what \in Final THEN UpdateAttrvars(t, name, r, owner) ELSE t

Subjects(s, r, scope) == IF IsVariable(s, Lhs(s, r)) THEN Subject(s, r, scope) ELSE s
Objects(s, r, scope, owner) ==
  FoldSet(LAMBDA vref, t : Object(t, r, scope, owner, vref), s, VariableRefs(s, s.nodes[r].kids[2]))

\* The owner of an attribute is the one that the relation had at first, also when its subject
\* has been rewritten.
AnnotateRelation(s, r, scope) ==
  IF ~IsTypesRestriction(s, r) THEN Objects(Subjects(Optionals(s, r), r, scope), r, scope, Owner(s, r))
  ELSE IF IsVariable(s, Lhs(s, r)) THEN [s EXCEPT !.stinfo[Variable(s, Lhs(s, r))].typerel = r]
  ELSE s

RECURSIVE VisitWhere(_, _, _)
VisitWhere(s, n, scope) ==
  CASE Of(s, n) = "Relation" -> AnnotateRelation(s, n, scope)
    [] Of(s, n) = "Exists" -> VisitWhere(s, s.nodes[n].kids[1], n)
    [] OTHER -> FoldLeft(LAMBDA t, kid : VisitWhere(t, kid, scope), s, s.nodes[n].kids)

\* A comparison of the HAVING clause.
VisitHaving(s, term) ==
  LET side(i) == VariablesBelow(s, s.nodes[term].kids[i])
      noted == FoldSet(LAMBDA name, t : [t EXCEPT !.stinfo[name].having = Append(@, term)], s, side(1) \cup side(2))
      optional(t, i, marks) ==
        IF s.nodes[term].optional \notin marks THEN t
        ELSE FoldSet(LAMBDA name, u :
                       IF u.stinfo[name].attrvar \in DOMAIN u.stinfo
                       THEN [u EXCEPT !.stinfo[u.stinfo[name].attrvar].optcomparisons = @ \cup {term}] ELSE u,
                     t, side(i))
      link(v, w, t) == LET near == IF v \in DOMAIN t.vargraph THEN t.vargraph[v] ELSE <<>>
                       IN  [t EXCEPT !.vargraph = (v :> Append(near, w)) @@ @]
      linked == FoldSet(LAMBDA pair, t : IF pair[1] = pair[2] THEN t
                                         ELSE link(pair[2], pair[1], link(pair[1], pair[2], t)),
                        noted, side(1) \X side(2))
  IN  optional(optional(linked, 1, {"left", "both"}), 2, {"right", "both"})

\* annotate(): every variable is prepared, then come the selection, the WHERE and HAVING clauses.
Annotated(s) ==
  LET aggregates(term) == {n \in Below(s, term) : Of(s, n) = "Function" /\ s.nodes[n].what \in Aggregate}
      prepared == [s EXCEPT !.has_aggregat = \E term \in Range(s.selection) : aggregates(term) # {},
                            !.stinfo = [name \in DOMAIN @ |-> IF name \in Range(s.defined_vars)
                                                             THEN Prepared @@ @[name] ELSE @[name]]]
      select(t, i) ==
        FoldSet(LAMBDA name, u : [SetScope(u, name, Stmt) EXCEPT !.stinfo[name].selected = @ \cup {i}],
                t, VariablesBelow(s, s.selection[i]))
      selected == FoldLeft(select, prepared, [i \in DOMAIN s.selection |-> i])
      visited == FoldLeft(LAMBDA t, n : VisitWhere(t, n, Stmt), selected, s.where)
      blocked == FoldLeft(LAMBDA t, term : FoldSet(LAMBDA name, u : BlocSimplification(u, name, term),
                                                   t, VariablesBelow(s, term)), visited, s.groupby)
  IN  IF s.having = <<>> THEN visited
      ELSE FoldSet(LAMBDA term, t : VisitHaving(t, term), blocked,
                   {n \in Below(s, s.having[1]) : Of(s, n) = "Comparison"})
=============================================================================
