------------------------------ MODULE Checker ------------------------------
(***************************************************************************)
(* RQLSTChecker.check() on a SELECT (rql/stcheck.py): one visit of the     *)
(* tree that collects errors, links variables, and rewrites what it meets: *)
(* an OR of both directions of a symmetric relation, an IN of one value,   *)
(* what is under a NOT.                                                    *)
(***************************************************************************)
EXTENDS LiveTree

CONSTANTS
  Final, Inlined, Symmetric,   \* what the schema says of relations: sets of them
  Cardinality1,                \* <<relation, 1 or 2>>: one object per subject, or one subject per object
  Aggregate                    \* functions that aggregate

\* The visit: under_not is a depth, var_info has flags per variable, goto the node to start
\* again from.
Started(s) ==
  [under_not |-> 0, var_info |-> [name \in DOMAIN s.stinfo |-> {}], goto |-> 0, raised |-> FALSE,
   vargraph |-> <<>>, vartypes |-> <<>>] @@ s

Error(s, error) == [s EXCEPT !.errors = @ \cup {error}]
ErrorIf(s, condition, error) == IF condition THEN Error(s, error) ELSE s
AddVarInfo(s, names, flag) ==
  [s EXCEPT !.var_info = [name \in DOMAIN @ |-> IF name \in names THEN @[name] \cup {flag} ELSE @[name]]]

\* A restriction that at most one relation per variable may be.
Unique(s, name, flag) ==
  IF flag \in s.var_info[name] THEN Error(s, flag) ELSE AddVarInfo(s, {name}, flag)

\* Every variable of a term is in a relation too.
InARelation(s, name) == \E vref \in s.stinfo[name].references : RelationOf(s, vref) # 0
CheckSelected(s, term) ==
  ErrorIf(s, \E name \in VariablesBelow(s, term) : ~InARelation(s, name), "not referenced")

-----------------------------------------------------------------------------
\* Relations.

\* vargraph: the neighbours of a variable, and the last relation from one to another.
Linked(s, from, to, rtype) ==
  LET neighbours(v) == IF v \in DOMAIN s.vargraph THEN s.vargraph[v] ELSE <<>>
      once == (from :> Append(neighbours(from), to)) @@ s.vargraph
      others == IF to \in DOMAIN once THEN once[to] ELSE <<>>
  IN  [s EXCEPT !.vargraph = (to :> Append(others, from)) @@ once,
                !.vartypes = (<<from, to>> :> rtype) @@ @]

VisitRelation(s, r) ==
  LET subject == Variable(s, Lhs(s, r))
      rtype == s.nodes[r].what
      optional == s.nodes[r].optional
      under == ErrorIf(s, optional # "none" /\ s.under_not > 0, "optional under NOT")
      types == Unique(ErrorIf(under, optional # "none", "optional type"), subject, "type")
      used == ErrorIf(AddVarInfo(under, {subject}, "rel"),
                      rtype \in Final /\ optional \notin {"none", "right"}, "optional subject")
      uid == IF rtype = "eid" /\ Operator(s, r) = "=" THEN Unique(used, subject, "uid") ELSE used
      seen == IF IsTypesRestriction(s, r) THEN types
              ELSE AddVarInfo(uid, VariablesBelow(s, s.nodes[r].kids[2]), "rel")
  IN  IF IsVariable(s, Rhs(s, r)) THEN Linked(seen, subject, Variable(s, Rhs(s, r)), rtype) ELSE seen

\* X r Y OR Y r X of a symmetric relation: the first stays, and is visited in place of the OR.
VisitOr(s, ou) ==
  LET r1 == s.nodes[ou].kids[1]
      r2 == s.nodes[ou].kids[2]
      relations == Of(s, r1) = "Relation" /\ Of(s, r2) = "Relation"
      variables == \A n \in {Lhs(s, r1), Rhs(s, r1), Lhs(s, r2), Rhs(s, r2)} : IsVariable(s, n)
  IN  IF /\ relations
         /\ s.nodes[r1].what = s.nodes[r2].what /\ s.nodes[r1].what \in Symmetric
         /\ variables
         /\ Variable(s, Lhs(s, r1)) = Variable(s, Rhs(s, r2))
         /\ Variable(s, Rhs(s, r1)) = Variable(s, Lhs(s, r2))
      THEN [Unregistered(Replaced(s, Parent(s, ou), ou, r1), VariableRefs(s, r2)) EXCEPT !.goto = r1]
      ELSE s

\* Mutant of OnlyReference: less than 1 reference.
OnlyReferenceStrictly(s, r) ==
  Cardinality({vref \in s.stinfo[Variable(s, Lhs(s, r))].references :
                 RelationOf(s, vref) = 0 \/ ~IsTypesRestriction(s, RelationOf(s, vref))}) < 1

\* An inlined relation whose subject is in no other one, types aside.
OnlyReference(s, r) ==
  Cardinality({vref \in s.stinfo[Variable(s, Lhs(s, r))].references :
                 RelationOf(s, vref) = 0 \/ ~IsTypesRestriction(s, RelationOf(s, vref))}) < 2

ShouldWrapByExists(s, child) ==
  CASE Of(s, child) = "Exists" -> FALSE
    [] Of(s, child) # "Relation" -> TRUE
    [] s.nodes[child].what \in {"identity"} \cup Final -> FALSE
    [] s.nodes[child].what \in Inlined -> OnlyReference(s, child)
    [] OTHER -> ~IsTypesRestriction(s, child)

LeaveNot(s, not_) ==
  LET child == s.nodes[not_].kids[1]
      t == [s EXCEPT !.under_not = @ - 1]
      wrapped == Appended(Made(t, "Exists", "", "none", not_), Newest(t) + 1, child)
  IN  IF ShouldWrapByExists(t, child) THEN Replaced(wrapped, not_, child, Newest(wrapped)) ELSE t

-----------------------------------------------------------------------------
\* Terms.

\* An IN of one value is the value, at the end of the kids of its parent.
VisitFunction(s, function) ==
  LET first == s.nodes[function].kids[1]
      nested == ErrorIf(s, /\ s.nodes[function].what \in Aggregate
                           /\ Of(s, first) = "Function" /\ s.nodes[first].what \in Aggregate, "nested aggregates")
      parent == Parent(s, function)
      moved == Appended(nested, parent, first)
  IN  IF s.nodes[function].what = "IN" /\ Len(s.nodes[function].kids) = 1
      THEN [moved EXCEPT !.nodes[parent].kids = SelectSeq(@, LAMBDA kid : kid # function)]
      ELSE nested

VisitEtype(s, n) ==
  ErrorIf(s, RelationOf(s, n) = 0 \/ s.nodes[RelationOf(s, n)].what # "is", "entity type")

VisitSortTerm(s, n) ==
  LET elsewhere(name) == \E vref \in s.stinfo[name].references :
                           \/ RelationOf(s, vref) # 0
                           \/ \E term \in Range(s.selection) : Equivalent(s, vref, term)
  IN  ErrorIf(s, \E name \in VariablesBelow(s, n) : ~elsewhere(name), "sort variable")

-----------------------------------------------------------------------------
\* The statement.

RECURSIVE HasPath(_, _, _, _)
\* logilab.common.graph.has_path: the first path found depth first; <<>> when there is none.
HasPath(graph, from, to, path) ==
  LET tried(found, next) ==
        IF found # <<>> THEN found
        ELSE IF next = to THEN Append(Tail(Append(path, from)), to)
        ELSE IF next \in Range(path) \cup {from} THEN <<>>
        ELSE HasPath(graph, next, to, Append(path, from))
  IN  FoldLeft(tried, <<>>, graph[from])

\* Mutant of HasUniqueValuePath: the cardinality of the relation forth, whatever the direction.
HasUniqueValuePathForth(s, from, to) ==
  LET path == <<from>> \o HasPath(s.vargraph, from, to, <<>>)
      rtype(v, w) == IF <<v, w>> \in DOMAIN s.vartypes THEN s.vartypes[<<v, w>>] ELSE s.vartypes[<<w, v>>]
  IN  /\ from \in DOMAIN s.vargraph /\ Len(path) > 1
      /\ \A i \in 1..(Len(path) - 1) : <<rtype(path[i], path[i + 1]), 1>> \in Cardinality1

\* Each step of the path leads to one value; the relation asked for is the last one that
\* was written from the one variable to the other, or else the other way round.
HasUniqueValuePath(s, from, to) ==
  LET path == <<from>> \o HasPath(s.vargraph, from, to, <<>>)
      single(i) ==
        LET v == path[i]  w == path[i + 1]
            forth == <<v, w>> \in DOMAIN s.vartypes
            rtype == IF forth THEN s.vartypes[<<v, w>>] ELSE s.vartypes[<<w, v>>]
        IN  /\ <<rtype, IF forth THEN 1 ELSE 2>> \in Cardinality1
            /\ w = to \/ rtype \notin Final
  IN  from \in DOMAIN s.vargraph /\ Len(path) > 1 /\ \A i \in 1..(Len(path) - 1) : single(i)

\* What is sorted on is selected, or has one value for the selected ones.
Sortable(s) ==
  LET selected == UNION {VariablesBelow(s, term) : term \in Range(s.selection)}
  IN  \A name \in UNION {VariablesBelow(s, term) : term \in Range(s.orderby)} :
        name \in selected \/ \E v \in selected : HasUniqueValuePath(s, v, name)

LeaveSelect(s) ==
  LET asked == s.where # <<>> \/ Len(s.selection) > 1
      selected == UNION {VariablesBelow(s, term) : term \in Range(s.selection)}
      checked == IF asked THEN AddVarInfo(FoldLeft(CheckSelected, s, s.selection), selected, "selected") ELSE s
      ungrouped == \E term \in Range(s.selection) :
                     IsVariable(s, term) /\ \A g \in Range(s.groupby) : ~Equivalent(s, term, g)
      grouped == IF s.groupby = <<>> THEN checked
                 ELSE FoldLeft(CheckSelected, ErrorIf(checked, ungrouped, "not grouped"), s.groupby)
      unbound == \E name \in Range(s.defined_vars) :
                   "type" \in checked.var_info[name] /\ checked.var_info[name] \cap {"rel", "selected"} = {}
  IN  [ErrorIf(grouped, s.distinct /\ ~Sortable(s), "cannot sort") EXCEPT !.raised = unbound]

RECURSIVE Visit(_, _), VisitKids(_, _, _)

Entered(s, n) ==
  CASE Of(s, n) = "Relation" -> VisitRelation(s, n)
    [] Of(s, n) = "Or"       -> VisitOr(s, n)
    [] Of(s, n) = "Not"      -> [s EXCEPT !.under_not = @ + 1]
    [] Of(s, n) = "Function" -> VisitFunction(s, n)
    [] Of(s, n) = "Etype"    -> VisitEtype(s, n)
    [] Of(s, n) = "SortTerm" -> VisitSortTerm(s, n)
    [] OTHER -> s

Visit(s, n) ==
  LET entered == Entered(s, n)
      below == VisitKids(entered, n, 1)
  IN  IF entered.goto # 0 THEN Visit([entered EXCEPT !.goto = 0], entered.goto)
      ELSE IF Of(s, n) = "Not" THEN LeaveNot(below, n)
      ELSE below

\* The loop is over the list itself, which a visit may change; a function that was taken
\* out keeps its own.
VisitKids(s, n, i) ==
  IF i > Len(s.nodes[n].kids) THEN s ELSE VisitKids(Visit(s, s.nodes[n].kids[i]), n, i + 1)

\* check(): the selected terms are visited twice, by the visit of the SELECT and with its children.
Checked(s) == LeaveSelect(FoldLeft(Visit, Started(s), s.selection \o ChildrenOf(s, Stmt)))
Refused(s) == s.errors # {} \/ s.raised
=============================================================================
