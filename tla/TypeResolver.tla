---------------------------- MODULE TypeResolver ----------------------------
(***************************************************************************)
(* RQLHelper.compute_solutions and compute_all_solutions on one query: the *)
(* resolvers go through its SELECTs, subqueries first, turn the relations  *)
(* of each into constraints, solve them, and keep the solutions in the     *)
(* SELECT; the types of a column alias then narrow the subquery, whose     *)
(* SELECTs that cannot give them leave the query.  Between two calls a     *)
(* client edits the query.                                                 *)
(*                                                                         *)
(* A constant stands for the type that the uid function gives it.          *)
(***************************************************************************)
EXTENDS Integers, Sequences, FiniteSets, Functions

CONSTANTS
  Select, Var,     \* the SELECTs; names of variables and of column aliases
  Type, Final,     \* the types of the schema, and those that are final
  RelationType,    \* its relations, but for type restrictions
  Associations,    \* Associations[r] \subseteq Type \X Type
  Specialized,     \* Specialized[t]: the types that specialize t
  Uid,             \* the relations that a given uid_func_mapping is about
  Null, Expr,      \* the constant NULL, and any other term
  Queries          \* the parsed queries

Term == Var \cup Type \cup {Null, Expr}

\* types is the right hand side of a type restriction; equal: its operator is "=".
Relation ==
  [rtype : RelationType, lhs : Term, rhs : Term, neged : BOOLEAN, equal : BOOLEAN]
    \cup [rtype : {"is", "is_instance_of"}, lhs : Var, types : SUBSET Type, neged : BOOLEAN]

ASSUME SchemaAssumption ==
  /\ Final \subseteq Type
  /\ Associations \in [RelationType -> SUBSET (Type \X Type)]
  /\ Specialized \in [Type -> SUBSET Type]
  /\ RelationType \cap {"is", "is_instance_of"} = {}
  /\ Uid \subseteq RelationType \ {"identity"}

\* What a term is, is known.
ASSUME TermAssumption ==
  Var \cap (Type \cup {Null, Expr}) = {} /\ Type \cap {Null, Expr} = {} /\ Null # Expr

VARIABLES
  tree,       \* the relations of each SELECT, under whatever And, Or and EXISTS:
              \* the resolvers do not tell them apart; the SELECTs of its subquery
  query,      \* what no operation changes of the query
  solutions,  \* the solutions of each SELECT
  types,      \* types[key][s][v]: stinfo[key] of the variable v of s
  mapping,    \* the uid_func_mapping of each resolver
  call,       \* the call that runs
  answered    \* history: how each resolver has answered for the present tree

Resolver == {"analyser", "itr_analyser"}

vars == <<tree, query, solutions, types, mapping, call, answered>>

\* subquery: the SELECTs that are still in the subquery of each.
Tree == [where : [Select -> SUBSET Relation], subquery : [Select -> SUBSET Select]]

\* top: the SELECTs of the root; with: those of the subquery of each, as parsed (at most
\* one subquery); vars, aliases: the names of each SELECT, aliases in the order of the
\* columns of the subquery; columns: the selected terms; edits: the relations that
\* clients add and remove, with their SELECTs.
Query == [top : Seq(Select), with : [Select -> Seq(Select)],
          vars : [Select -> SUBSET Var], aliases : [Select -> Seq(Var)],
          columns : [Select -> Seq(Term)], edits : SUBSET (Select \X Relation)]

NamesOf(q, s) == q.vars[s] \cup Range(q.aliases[s])

Names(s) == NamesOf(query, s)

TermsOf(rel) == IF "rhs" \in DOMAIN rel THEN {rel.lhs, rel.rhs} ELSE {rel.lhs}

\* The SELECTs that one comes to from s, s included, when below[t] are the SELECTs of the
\* subquery of t.
Closed(below, S) == \A s \in S : below[s] \subseteq S

Below(below, s) ==
  {t \in Select : \A S \in SUBSET Select : (s \in S /\ Closed(below, S)) => t \in S}

\* No SELECT is below two places of a list.
Apart(below, list) ==
  \A i, j \in DOMAIN list : i # j => Below(below, list[i]) \cap Below(below, list[j]) = {}

ASSUME FiniteAssumption == IsFiniteSet(Type) /\ IsFiniteSet(Var)

\* A query that has been parsed, and may have been simplified: a tree of at least one
\* SELECT; the names of a SELECT are its own, and a subquery has one for each column; the
\* subject of a relation is a variable, or a constant that has replaced one unless a uid is
\* given of it.
ASSUME QueriesAssumption ==
  \A q \in Queries :
    /\ q.tree \in Tree
    /\ q.query \in Query
    /\ q.query.top # <<>>
    /\ \A s \in Select :
         /\ q.tree.subquery[s] = Range(q.query.with[s])
         /\ q.query.with[s] # <<>> => q.query.aliases[s] # <<>>
         /\ q.query.vars[s] \cap Range(q.query.aliases[s]) = {}
         /\ Range(q.query.columns[s]) \cap Var \subseteq NamesOf(q.query, s)
         /\ \A rel \in q.tree.where[s] \cup {e[2] : e \in {x \in q.query.edits : x[1] = s}} :
              /\ TermsOf(rel) \cap Var \subseteq NamesOf(q.query, s)
              /\ rel.lhs \in Var \/ (rel.lhs \in Type /\ rel.rtype \notin Uid)
         /\ Apart(q.tree.subquery, q.query.with[s])
         /\ \A c \in q.tree.subquery[s] : s \notin Below(q.tree.subquery, c)
         /\ \A t \in Select \ {s} : q.tree.subquery[s] \cap q.tree.subquery[t] = {}
    /\ Apart(q.tree.subquery, q.query.top)

Key(r) == IF r = "analyser" THEN "possibletypes" ELSE "allpossibletypes"

NoCall == [resolver |-> "none"]

\* path: the SELECTs that the walk is in, the innermost first, each with the position
\* in its subquery that comes next; next: the same for the root.
Frame == [select : Select, next : Nat \ {0}]

Call == {NoCall} \cup [resolver : Resolver, given : BOOLEAN, next : Nat \ {0}, path : Seq(Frame)]

-----------------------------------------------------------------------------
\* The schema.

IsFinal(rtype) == \E p \in Associations[rtype] : p[2] \in Final

Subjects(rtype) == {p[1] : p \in Associations[rtype]}
Objects(rtype)  == {p[2] : p \in Associations[rtype]}
SubjectsOf(rtype, t) == {p[1] : p \in {q \in Associations[rtype] : q[2] = t}}
ObjectsOf(rtype, t)  == {p[2] : p \in {q \in Associations[rtype] : q[1] = t}}

-----------------------------------------------------------------------------
\* The constraints of a SELECT.

TermType(term, f) == IF term \in Var THEN f[term] ELSE term

\* The types of a column of the subquery of s, by the solutions sols of its SELECTs.
ColumnTypes(t, sols, s, col) ==
  UNION {{TermType(query.columns[c][col], f) : f \in sols[c]} : c \in t.subquery[s]}

AliasTypes(t, sols, s, v) ==
  UNION {ColumnTypes(t, sols, s, i) : i \in {j \in DOMAIN query.aliases[s] : query.aliases[s][j] = v}}

\* add_var: any type for a variable, those of its column for an alias.
Domain(s, v) == IF v \in query.vars[s] THEN Type ELSE AliasTypes(tree, solutions, s, v)

VarHasTypes(v, ts) == [name |-> "var_has_types", var |-> v, types |-> ts]

IsTypeRestriction(rel) == rel.rtype \in {"is", "is_instance_of"}

\* Mutant of RestrictedTypes: the negation before the specializations.
RestrictedTypesSwapped(rel) ==
  LET ts == IF rel.neged THEN (Type \ Final) \ rel.types ELSE rel.types
  IN  ts \cup IF rel.rtype = "is" THEN {} ELSE UNION {Specialized[t] : t \in rel.types}

\* visit_type_restriction.
RestrictedTypes(rel) ==
  LET ts == rel.types \cup IF rel.rtype = "is" THEN {} ELSE UNION {Specialized[t] : t \in rel.types}
  IN  IF rel.neged THEN (Type \ Final) \ ts ELSE ts

\* The types that a relation of uid_func_mapping gives its subject.
UidTypes(rel) ==
  IF rel.neged \/ ~rel.equal THEN Type \ Final ELSE {rel.rhs} \cap Type

\* or_and(...): for each type of the subject, those of the object.
Associated(s, rel) ==
  LET lhsdomain == Domain(s, rel.lhs)
      rhsdomain == Domain(s, rel.rhs)
  IN  [name |-> "or_and", lhs |-> rel.lhs, rhs |-> rel.rhs,
       cases |-> {<<t, ObjectsOf(rel.rtype, t) \cap rhsdomain>> : t \in Subjects(rel.rtype) \cap lhsdomain}]

\* visit_relation once it is neither a type restriction nor about a uid.
RelationConstraints(s, rel, uid) ==
  CASE rel.lhs \in Type ->
         {VarHasTypes(v, Domain(s, v) \cap IF uid THEN ObjectsOf(rel.rtype, rel.lhs) ELSE Objects(rel.rtype))
            : v \in {rel.rhs} \cap Var}
    [] rel.lhs \in Var /\ rel.rhs \in Type \cup {Null} /\ ~IsFinal(rel.rtype) ->
         IF rel.rhs = Null THEN {}
         ELSE {VarHasTypes(rel.lhs, Domain(s, rel.lhs) \cap
                 IF uid THEN SubjectsOf(rel.rtype, rel.rhs) ELSE Subjects(rel.rtype))}
    [] rel.lhs \in Var /\ rel.rhs \in Var ->
         {Associated(s, rel)}
           \cup IF rel.lhs # rel.rhs THEN {}
                ELSE {VarHasTypes(rel.lhs, {t \in Domain(s, rel.lhs) : <<t, t>> \in Associations[rel.rtype]})}
    [] rel.lhs \in Var /\ (rel.rhs = Expr \/ (rel.rhs \in Type \cup {Null} /\ IsFinal(rel.rtype))) ->
         {VarHasTypes(rel.lhs, Subjects(rel.rtype) \cap Domain(s, rel.lhs))}
    [] OTHER -> {}

\* Mutant of Constraints: NOT X identity Y taken as a relation.
ConstraintsKeepIdentity(s, rel, uid) ==
  CASE IsTypeRestriction(rel) -> {VarHasTypes(rel.lhs, RestrictedTypes(rel))}
    [] uid /\ rel.rtype \in Uid /\ UidTypes(rel) # {} -> {VarHasTypes(rel.lhs, UidTypes(rel))}
    [] OTHER -> RelationConstraints(s, rel, uid)

\* visit_relation.
Constraints(s, rel, uid) ==
  CASE IsTypeRestriction(rel) -> {VarHasTypes(rel.lhs, RestrictedTypes(rel))}
    [] rel.rtype = "identity" /\ rel.neged -> {}
    [] uid /\ rel.rtype \in Uid /\ UidTypes(rel) # {} -> {VarHasTypes(rel.lhs, UidTypes(rel))}
    [] OTHER -> RelationConstraints(s, rel, uid)

\* The relations that the walk of a resolver comes to: the one that ignores type
\* restrictions also skips negated relations, unless they are final.
Visited(s, r) ==
  IF r = "analyser" THEN tree.where[s]
  ELSE {rel \in tree.where[s] : ~IsTypeRestriction(rel) /\ (rel.neged => IsFinal(rel.rtype))}

SelectedVars(s) == Range(query.columns[s]) \cap Var

Problem(s, r, uid) ==
  IF tree.where[s] # {} \/ query.with[s] # <<>>
  THEN UNION {Constraints(s, rel, uid) : rel \in Visited(s, r)}
  ELSE {[name |-> "vars_have_same_types", vars |-> SelectedVars(s), types |-> Type \ Final]}

-----------------------------------------------------------------------------
\* The two back-ends, which find all assignments that satisfy a problem.

Assignments(s) ==
  {f \in [Names(s) -> Type] : \A v \in Names(s) : f[v] \in Domain(s, v)}

\* ConstraintCSPProblem: Python expressions.
PythonAccepts(c, f) ==
  CASE c.name = "var_has_types" -> f[c.var] \in c.types
    [] c.name = "or_and" -> \E case \in c.cases : f[c.lhs] = case[1] /\ f[c.rhs] \in case[2]
    [] c.name = "vars_have_same_types" -> \A v, w \in c.vars : f[v] = f[w] /\ f[v] \in c.types

\* Mutant of EqualVars: off by one.
EqualVarsOfThree(vs, f) == Cardinality(vs) > 2 => Cardinality({f[v] : v \in vs}) = 1

EqualVars(vs, f) == Cardinality(vs) > 1 => Cardinality({f[v] : v \in vs}) = 1

\* GecodeCSPProblem: equalities of numbered values, those of the domains.
Equals(f, v, ts, values) ==
  IF Cardinality(ts) = 1 THEN {f[v]} = ts ELSE \E t \in ts \cap values : f[v] = t

GecodeAccepts(c, f, values) ==
  CASE c.name = "var_has_types" -> Equals(f, c.var, c.types, values)
    [] c.name = "or_and" ->
         \E case \in c.cases : f[c.lhs] = case[1] /\ Equals(f, c.rhs, case[2], values)
    [] c.name = "vars_have_same_types" ->
         /\ EqualVars(c.vars, f)
         /\ \A v \in c.vars : Equals(f, v, c.types, values)

\* A single type with no number is a KeyError.
GecodeRaises(c, values) ==
  c.name = "var_has_types" /\ Cardinality(c.types) = 1 /\ ~(c.types \subseteq values)

PythonSolutions(s, problem) ==
  {f \in Assignments(s) : \A c \in problem : PythonAccepts(c, f)}

GecodeSolutions(s, problem) ==
  LET values == UNION {Domain(s, v) : v \in Names(s)}
  IN  IF \E c \in problem : GecodeRaises(c, values) THEN {}
      ELSE {f \in Assignments(s) : \A c \in problem : GecodeAccepts(c, f, values)}

-----------------------------------------------------------------------------
TypeOK ==
  /\ tree \in Tree
  /\ \A s \in Select :
       /\ solutions[s] \subseteq [Names(s) -> Type]
       /\ \A r \in Resolver : types[Key(r)][s] \in [Names(s) -> SUBSET Type]
  /\ mapping \in [Resolver -> {"empty", "given", "None"}]
  /\ call \in Call
  /\ answered \in [Resolver -> {"no", "yes", "with uid"}]

Init ==
  /\ \E q \in Queries :
       /\ query = q.query
       /\ tree = q.tree
       /\ solutions = [s \in Select |-> {}]
       /\ types = [k \in {"possibletypes", "allpossibletypes"} |->
                     [s \in Select |-> [v \in q.query.vars[s] \cup Range(q.query.aliases[s]) |-> {}]]]
  /\ mapping = [r \in Resolver |-> "empty"]
  /\ call = NoCall
  /\ answered = [r \in Resolver |-> "no"]

Unanswered == [r \in Resolver |-> "no"]

\* What add_relation, add_type_restriction and remove_node make of a WHERE clause.
AddRelation(s, rel) ==
  /\ call = NoCall
  /\ <<s, rel>> \in query.edits
  /\ rel \notin tree.where[s]
  /\ tree' = [tree EXCEPT !.where[s] = @ \cup {rel}]
  /\ answered' = Unanswered
  /\ UNCHANGED <<query, solutions, types, mapping, call>>

RemoveRelation(s, rel) ==
  /\ call = NoCall
  /\ <<s, rel>> \in query.edits
  /\ rel \in tree.where[s]
  /\ tree' = [tree EXCEPT !.where[s] = @ \ {rel}]
  /\ answered' = Unanswered
  /\ UNCHANGED <<query, solutions, types, mapping, call>>

-----------------------------------------------------------------------------
Entered(s) == [select |-> s, next |-> 1]

UsesUid(r) == mapping[r] = "given"

How(uid) == IF uid THEN "with uid" ELSE "yes"

\* visit(rqlst, uid_func_mapping).  compute_all_solutions with a mapping where
\* compute_solutions had none, or without where it had one, may narrow the subqueries for
\* its own answers: those of compute_solutions no longer count.
Visit(r, given) ==
  /\ call = NoCall
  /\ call' = [resolver |-> r, given |-> given, next |-> 2, path |-> <<Entered(Head(query.top))>>]
  /\ mapping' = [mapping EXCEPT ![r] = IF given THEN "given" ELSE @]
  /\ answered' = IF r = "itr_analyser" /\ answered["analyser"] # How(given \/ UsesUid(r)) THEN Unanswered
                 ELSE answered
  /\ UNCHANGED <<tree, query, solutions, types>>

Innermost == Head(call.path)

Current == Innermost.select

\* The SELECTs of the subquery of the current one that the walk has still to enter.
Coming ==
  {i \in Innermost.next .. Len(query.with[Current]) : query.with[Current][i] \in tree.subquery[Current]}

\* visit_select visits its subquery first, unless it has no variable.
Descend ==
  /\ call # NoCall
  /\ Names(Current) # {}
  /\ \E i \in Coming :
       /\ \A j \in Coming : i <= j
       /\ call' = [call EXCEPT !.path =
                     <<Entered(query.with[Current][i]), [Innermost EXCEPT !.next = i + 1]>> \o Tail(@)]
  /\ UNCHANGED <<tree, query, solutions, types, mapping, answered>>

\* The SELECT whose subquery, if any, has been visited.
Ready == call # NoCall /\ (Names(Current) # {} => Coming = {})

\* "rtype in self.uid_func_mapping" of a mapping that was reset to None.
MappingRaises(s, r) ==
  /\ mapping[r] = "None"
  /\ \E rel \in Visited(s, r) : ~IsTypeRestriction(rel) /\ ~(rel.rtype = "identity" /\ rel.neged)

Solutions(s, r) == GecodeSolutions(s, Problem(s, r, UsesUid(r)))

\* Mutant of Kept: a SELECT that has one such solution keeps all.
KeptWhole(s, found, c) ==
  IF \E g \in solutions[c] :
       \A i \in DOMAIN query.aliases[s] :
         TermType(query.columns[c][i], g) \in {f[query.aliases[s][i]] : f \in found}
  THEN solutions[c] ELSE {}

\* The solutions of a SELECT of the subquery that the types of the aliases allow.
Kept(s, found, c) ==
  {g \in solutions[c] :
     \A i \in DOMAIN query.aliases[s] :
       TermType(query.columns[c][i], g) \in {f[query.aliases[s][i]] : f \in found}}

TypesIn(s, found) == [v \in Names(s) |-> {f[v] : f \in found}]

\* Mutant of KeepsSolutions: whatever the key is.
KeepsAnySolutions(r) == TRUE

KeepsSolutions(r) == Key(r) = "possibletypes"

\* set_possible_types: the SELECTs of the subquery that have no solution left are
\* removed, and the others narrowed, whatever the key is.
SetPossibleTypes(s, found, r) ==
  LET kept(c) == Kept(s, found, c)
      narrowed == {c \in tree.subquery[s] : kept(c) # {}}
  IN  /\ tree' = [tree EXCEPT !.subquery[s] = narrowed]
      /\ solutions' = [c \in Select |-> IF c \in narrowed THEN kept(c)
                                        ELSE IF c = s /\ KeepsSolutions(r) THEN found
                                        ELSE solutions[c]]
      /\ types' = [k \in DOMAIN types |->
                     [c \in Select |-> IF c \in narrowed /\ k = "possibletypes" THEN TypesIn(c, kept(c))
                                       ELSE IF c = s /\ k = Key(r) THEN TypesIn(s, found)
                                       ELSE types[k][c]]]

\* A SELECT without variables is not resolved: its only solution is empty.
SetNoTypes(s) ==
  /\ solutions' = [solutions EXCEPT ![s] = [Names(s) -> Type]]
  /\ UNCHANGED <<tree, types>>

\* The end of the call, or its next SELECT.
Continue ==
  IF Len(call.path) > 1
  THEN call' = [call EXCEPT !.path = Tail(@)] /\ UNCHANGED <<mapping, answered>>
  ELSE IF call.next <= Len(query.top)
  THEN /\ call' = [call EXCEPT !.next = @ + 1, !.path = <<Entered(query.top[call.next])>>]
       /\ UNCHANGED <<mapping, answered>>
  ELSE LET r == call.resolver
           how == How(UsesUid(r))
       IN  /\ call' = NoCall
           /\ mapping' = [mapping EXCEPT ![r] = IF call.given THEN "None" ELSE @]
           /\ answered' = IF r = "analyser" THEN [Unanswered EXCEPT ![r] = how]
                          ELSE [answered EXCEPT ![r] = IF answered["analyser"] = "no" THEN "no" ELSE how]

Resolve ==
  /\ Ready
  /\ \/ Names(Current) = {} /\ SetNoTypes(Current)
     \/ /\ Names(Current) # {}
        /\ ~MappingRaises(Current, call.resolver)
        /\ Solutions(Current, call.resolver) # {}
        /\ SetPossibleTypes(Current, Solutions(Current, call.resolver), call.resolver)
  /\ Continue
  /\ UNCHANGED query

\* TypeResolverException, or the TypeError of MappingRaises: what was set for earlier
\* SELECTs stays, and so does the mapping.
ResolveRaises ==
  /\ Ready
  /\ Names(Current) # {}
  /\ MappingRaises(Current, call.resolver) \/ Solutions(Current, call.resolver) = {}
  /\ call' = NoCall
  /\ answered' = IF call.resolver = "analyser" THEN Unanswered ELSE [answered EXCEPT !["itr_analyser"] = "no"]
  /\ UNCHANGED <<tree, query, solutions, types, mapping>>

Next ==
  \/ \E e \in query.edits : AddRelation(e[1], e[2])
  \/ \E e \in query.edits : RemoveRelation(e[1], e[2])
  \/ \E r \in Resolver, given \in BOOLEAN : Visit(r, given)
  \/ Descend
  \/ Resolve
  \/ ResolveRaises

Spec == Init /\ [][Next]_vars

-----------------------------------------------------------------------------
\* What a solution is, said of the schema.

\* A term may be of type t.
MayBe(term, t, f, known) == IF term \in Var THEN f[term] = t ELSE (term \in Type /\ known) => term = t

Allows(rel, f, uid) ==
  IF IsTypeRestriction(rel)
  THEN f[rel.lhs] \in IF rel.neged THEN (Type \ Final) \ RestrictedTypes([rel EXCEPT !.neged = FALSE])
                      ELSE RestrictedTypes(rel)
  ELSE IF uid /\ rel.rtype \in Uid /\ UidTypes(rel) # {}
  THEN f[rel.lhs] \in UidTypes(rel)
  ELSE \/ rel.rtype = "identity" /\ rel.neged
       \/ TermsOf(rel) \cap Var = {}
       \/ rel.rhs = Null /\ ~IsFinal(rel.rtype)
       \/ \E p \in Associations[rel.rtype] :
            /\ MayBe(rel.lhs, p[1], f, uid)
            /\ MayBe(rel.rhs, p[2], f, uid /\ ~IsFinal(rel.rtype))

\* The types of several aliases narrow a subquery one alias at a time: a SELECT that the
\* types of one remove may leave another without a SELECT that gives one of its types.
OneColumn(s) == Len(query.aliases[s]) <= 1

Fits(s, f, uid) ==
  /\ OneColumn(s) => \A v \in Range(query.aliases[s]) : f[v] \in AliasTypes(tree, solutions, s, v)
  /\ \A rel \in tree.where[s] : Allows(rel, f, uid)
  /\ (tree.where[s] = {} /\ query.with[s] = <<>>) =>
       \A v, w \in SelectedVars(s) : f[v] = f[w] /\ f[v] \notin Final

InQuery == UNION {Below(tree.subquery, s) : s \in Range(query.top)}

Answered(r) == call = NoCall /\ answered[r] # "no"

\* compute_solutions has returned, and the query has neither been edited since nor gone
\* through compute_all_solutions with another mapping: every solution of every SELECT,
\* subqueries included, gives the relations types that the schema associates, and the
\* aliases types of their columns, as narrowed.
SolutionsFit ==
  /\ TypeOK
  /\ Answered("analyser") =>
    \A s \in InQuery : \A f \in solutions[s] : Fits(s, f, answered["analyser"] = "with uid")

\* Then the solutions of the root are all those that fit the query as it is, after
\* its subqueries were narrowed and some of their SELECTs removed.
SolutionsAreComplete ==
  Answered("analyser") =>
    \A s \in {top \in Range(query.top) : OneColumn(top)} :
      solutions[s] = {f \in [Names(s) -> Type] : Fits(s, f, answered["analyser"] = "with uid")}

\* The types of a column alias of the root and those of its column agree.
AliasesAgree ==
  Answered("analyser") =>
    \A s \in {top \in Range(query.top) : OneColumn(top)} : \A i \in DOMAIN query.aliases[s] :
      types["possibletypes"][s][query.aliases[s][i]] = ColumnTypes(tree, solutions, s, i)

\* "allpossibletypes" has every type that "possibletypes" has.
AllTypesContainTypes ==
  (Answered("analyser") /\ Answered("itr_analyser")) =>
    \A s \in {t \in InQuery : OneColumn(t)} : \A v \in Names(s) :
      types["possibletypes"][s][v] \subseteq types["allpossibletypes"][s][v]

\* The types that two calls leave in aliases and variables agree, with the columns and with
\* each other.
TypesAgree == AliasesAgree /\ AllTypesContainTypes

\* compute_all_solutions, which "[stores its results] in as the 'allpossibletypes'
\* key", leaves the solutions and the subqueries of a query that compute_solutions has
\* answered with the same mapping alone.
AllSolutionsKeepSolutions ==
  [][(Ready /\ call.resolver = "itr_analyser" /\ answered["analyser"] # "no"
        /\ OneColumn(Current)) =>
       UNCHANGED <<tree, solutions>>]_vars

\* The two back-ends find the same solutions to every problem that is posed.
BackendsAgree ==
  (Ready /\ Names(Current) # {}) =>
    LET problem == Problem(Current, call.resolver, UsesUid(call.resolver))
    IN  PythonSolutions(Current, problem) = GecodeSolutions(Current, problem)
=============================================================================
