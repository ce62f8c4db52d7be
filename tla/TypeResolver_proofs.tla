------------------------ MODULE TypeResolver_proofs ------------------------
(***************************************************************************)
(* Proofs about the resolvers, for any schema, query and back-end values:  *)
(* the calls keep the shape of what they set, the two back-ends find the   *)
(* same solutions, and the solutions that compute_solutions leaves fit.    *)
(***************************************************************************)
EXTENDS TypeResolver, SequenceTheorems, FiniteSetTheorems, TLAPS

-----------------------------------------------------------------------------
\* The shape of a query and of what the resolvers set.

\* What the edits and the calls may have made of the query q.
ParsedFrom(q) ==
  /\ query = q.query
  /\ \A s \in Select :
       /\ tree.subquery[s] \subseteq q.tree.subquery[s]
       /\ \A rel \in tree.where[s] : rel \in q.tree.where[s] \/ <<s, rel>> \in query.edits

Parsed == \E q \in Queries : ParsedFrom(q)

\* The part of TypeOK that an induction needs beside it: which SELECTs and keys are set.
Domains ==
  /\ solutions = [s \in Select |-> solutions[s]]
  /\ types = [k \in {"possibletypes", "allpossibletypes"} |-> [s \in Select |-> types[k][s]]]

PathInv == call # NoCall => call.path # <<>>

ShapeInv == TypeOK /\ Parsed /\ Domains /\ PathInv

LEMMA QueryFacts ==
  ASSUME TypeOK, Parsed
  PROVE  /\ query \in Query
         /\ query.top \in Seq(Select) /\ query.top # <<>>
         /\ \A s \in Select :
              /\ query.with[s] \in Seq(Select)
              /\ query.vars[s] \subseteq Var
              /\ query.aliases[s] \in Seq(Var)
              /\ query.columns[s] \in Seq(Term)
              /\ Names(s) \subseteq Var
              /\ tree.subquery[s] \subseteq Range(query.with[s])
              /\ SelectedVars(s) \subseteq Names(s)
              /\ \A rel \in tree.where[s] :
                   /\ rel \in Relation
                   /\ TermsOf(rel) \cap Var \subseteq Names(s)
                   /\ rel.lhs \in Var \/ (rel.lhs \in Type /\ rel.rtype \notin Uid)
<1>1. PICK q \in Queries : ParsedFrom(q)
  BY DEF Parsed
<1>2. query = q.query /\ q.query \in Query /\ q.query.top # <<>>
  BY <1>1, QueriesAssumption DEF ParsedFrom
<1>3. query.top \in Seq(Select) /\ query.top # <<>>
  BY <1>2 DEF Query
<1>4. ASSUME NEW s \in Select
      PROVE  /\ query.with[s] \in Seq(Select)
             /\ query.vars[s] \subseteq Var
             /\ query.aliases[s] \in Seq(Var)
             /\ query.columns[s] \in Seq(Term)
  BY <1>2 DEF Query
<1>5. ASSUME NEW s \in Select
      PROVE  Names(s) \subseteq Var
  <2>1. Range(query.aliases[s]) \subseteq Var
    BY <1>4, ElementOfSeq, LenProperties DEF Range
  <2> QED BY <1>4, <2>1 DEF Names, NamesOf
<1>6. ASSUME NEW s \in Select
      PROVE  /\ tree.subquery[s] \subseteq Range(query.with[s])
             /\ SelectedVars(s) \subseteq Names(s)
  <2>1. /\ q.tree.subquery[s] = Range(q.query.with[s])
        /\ Range(q.query.columns[s]) \cap Var \subseteq NamesOf(q.query, s)
    BY QueriesAssumption
  <2>2. tree.subquery[s] \subseteq q.tree.subquery[s]
    BY <1>1 DEF ParsedFrom
  <2> QED BY <1>2, <2>1, <2>2 DEF SelectedVars, Names
<1>7. ASSUME NEW s \in Select, NEW rel \in tree.where[s]
      PROVE  /\ rel \in Relation
             /\ TermsOf(rel) \cap Var \subseteq Names(s)
             /\ rel.lhs \in Var \/ (rel.lhs \in Type /\ rel.rtype \notin Uid)
  <2>1. rel \in Relation
    BY DEF TypeOK, Tree
  <2>2. rel \in q.tree.where[s] \/ <<s, rel>> \in q.query.edits
    BY <1>1, <1>2 DEF ParsedFrom
  <2>3. rel \in q.tree.where[s] \cup {e[2] : e \in {x \in q.query.edits : x[1] = s}}
    <3>1. ASSUME <<s, rel>> \in q.query.edits
          PROVE  rel \in {e[2] : e \in {x \in q.query.edits : x[1] = s}}
      <4>1. <<s, rel>> \in {x \in q.query.edits : x[1] = s} /\ <<s, rel>>[2] = rel
        BY <3>1
      <4> QED BY <4>1
    <3> QED BY <2>2, <3>1
  <2>4. /\ TermsOf(rel) \cap Var \subseteq NamesOf(q.query, s)
        /\ rel.lhs \in Var \/ (rel.lhs \in Type /\ rel.rtype \notin Uid)
    BY <2>3, QueriesAssumption
  <2> QED BY <1>2, <2>1, <2>4 DEF Names
<1> QED BY <1>2, <1>3, <1>4, <1>5, <1>6, <1>7

-----------------------------------------------------------------------------
\* The constraints that are posed.

LEMMA TypeRestrictionShape ==
  ASSUME NEW rel \in Relation, IsTypeRestriction(rel)
  PROVE  /\ rel.lhs \in Var
         /\ rel.types \subseteq Type
         /\ rel.neged \in BOOLEAN
         /\ TermsOf(rel) = {rel.lhs}
         /\ RestrictedTypes(rel) \subseteq Type
<1>1. rel \in [rtype : {"is", "is_instance_of"}, lhs : Var, types : SUBSET Type, neged : BOOLEAN]
  BY SchemaAssumption DEF Relation, IsTypeRestriction
<1>2. rel.lhs \in Var /\ rel.types \subseteq Type /\ rel.neged \in BOOLEAN
  BY <1>1
<1>3. TermsOf(rel) = {rel.lhs}
  BY <1>1 DEF TermsOf
<1>4. RestrictedTypes(rel) \subseteq Type
  <2>1. \A t \in rel.types : Specialized[t] \subseteq Type
    BY <1>2, SchemaAssumption
  <2> QED BY <1>2, <2>1 DEF RestrictedTypes
<1> QED BY <1>2, <1>3, <1>4

LEMMA RelationShape ==
  ASSUME NEW rel \in Relation, ~IsTypeRestriction(rel)
  PROVE  /\ rel.rtype \in RelationType
         /\ rel.lhs \in Term /\ rel.rhs \in Term
         /\ rel.neged \in BOOLEAN /\ rel.equal \in BOOLEAN
         /\ TermsOf(rel) = {rel.lhs, rel.rhs}
<1>1. rel \in [rtype : RelationType, lhs : Term, rhs : Term, neged : BOOLEAN, equal : BOOLEAN]
  BY DEF Relation, IsTypeRestriction
<1>2. TermsOf(rel) = {rel.lhs, rel.rhs}
  BY <1>1 DEF TermsOf
<1> QED BY <1>1, <1>2

LEMMA SchemaFacts ==
  ASSUME NEW r \in RelationType
  PROVE  /\ Associations[r] \subseteq Type \X Type
         /\ Subjects(r) \subseteq Type /\ Objects(r) \subseteq Type
         /\ \A t : SubjectsOf(r, t) \subseteq Type /\ ObjectsOf(r, t) \subseteq Type
<1>1. Associations[r] \subseteq Type \X Type
  BY SchemaAssumption
<1> QED BY <1>1 DEF Subjects, Objects, SubjectsOf, ObjectsOf

\* The constraints that the walk makes: types of a name, types of two names by cases, and
\* one type for all selected variables.
AboutOne(s, c) == \E v \in Names(s), ts \in SUBSET Type : c = VarHasTypes(v, ts)

AboutTwo(s, c) ==
  /\ c.name = "or_and"
  /\ c.lhs \in Names(s) /\ c.rhs \in Names(s)
  /\ \A case \in c.cases : case[2] \subseteq Type

AboutAll(s, c) == c = [name |-> "vars_have_same_types", vars |-> SelectedVars(s), types |-> Type \ Final]

Posed(s, c) == AboutOne(s, c) \/ AboutTwo(s, c) \/ AboutAll(s, c)

LEMMA RelationIsPosed ==
  ASSUME NEW s \in Select, NEW rel \in Relation, NEW uid \in BOOLEAN,
         ~IsTypeRestriction(rel), TermsOf(rel) \cap Var \subseteq Names(s)
  PROVE  \A c \in RelationConstraints(s, rel, uid) : Posed(s, c)
<1> DEFINE OneOf(v) == \A ts \in SUBSET Type : Posed(s, VarHasTypes(v, ts))
<1>0. \A v \in Names(s) : OneOf(v)
  BY DEF Posed, AboutOne
<1>1. /\ rel.rtype \in RelationType
      /\ rel.lhs \in Var => rel.lhs \in Names(s)
      /\ rel.rhs \in Var => rel.rhs \in Names(s)
  BY RelationShape
<1>2. /\ Subjects(rel.rtype) \subseteq Type /\ Objects(rel.rtype) \subseteq Type
      /\ \A t : SubjectsOf(rel.rtype, t) \subseteq Type /\ ObjectsOf(rel.rtype, t) \subseteq Type
      /\ \A t : <<t, t>> \in Associations[rel.rtype] => t \in Type
  BY <1>1, SchemaFacts
<1>3. ASSUME rel.lhs \in Var, rel.rhs \in Var
      PROVE  Posed(s, Associated(s, rel))
  <2>1. \A case \in Associated(s, rel).cases : case[2] \subseteq Type
    BY <1>2 DEF Associated
  <2> QED BY <1>1, <1>3, <2>1 DEF Posed, AboutTwo, Associated
<1> HIDE DEF OneOf
<1>4. ASSUME NEW v \in Names(s), NEW ts \in SUBSET Type
      PROVE  Posed(s, VarHasTypes(v, ts))
  BY <1>0 DEF OneOf
<1>5. CASE rel.lhs \in Type
  <2> DEFINE ts(v) == Domain(s, v) \cap IF uid THEN ObjectsOf(rel.rtype, rel.lhs) ELSE Objects(rel.rtype)
  <2>1. RelationConstraints(s, rel, uid) = {VarHasTypes(v, ts(v)) : v \in {rel.rhs} \cap Var}
    BY <1>5, TermAssumption DEF RelationConstraints
  <2>2. \A v : ts(v) \in SUBSET Type
    BY <1>2
  <2> HIDE DEF ts
  <2> QED BY <1>1, <1>4, <2>1, <2>2
<1>6. CASE rel.lhs \in Var /\ rel.rhs \in Type \cup {Null} /\ ~IsFinal(rel.rtype)
  <2> DEFINE ts == Domain(s, rel.lhs) \cap
                     IF uid THEN SubjectsOf(rel.rtype, rel.rhs) ELSE Subjects(rel.rtype)
  <2>1. RelationConstraints(s, rel, uid) = IF rel.rhs = Null THEN {} ELSE {VarHasTypes(rel.lhs, ts)}
    BY <1>6, TermAssumption DEF RelationConstraints
  <2>2. ts \in SUBSET Type
    BY <1>2
  <2> HIDE DEF ts
  <2> QED BY <1>1, <1>4, <1>6, <2>1, <2>2
<1>7. CASE rel.lhs \in Var /\ rel.rhs \in Var
  <2> DEFINE ts == {t \in Domain(s, rel.lhs) : <<t, t>> \in Associations[rel.rtype]}
  <2>1. RelationConstraints(s, rel, uid) =
          {Associated(s, rel)} \cup IF rel.lhs # rel.rhs THEN {} ELSE {VarHasTypes(rel.lhs, ts)}
    BY <1>7, TermAssumption DEF RelationConstraints
  <2>2. ts \in SUBSET Type
    BY <1>2
  <2> HIDE DEF ts
  <2> QED BY <1>1, <1>3, <1>4, <1>7, <2>1, <2>2
<1>8. CASE rel.lhs \in Var /\ (rel.rhs = Expr \/ (rel.rhs \in Type \cup {Null} /\ IsFinal(rel.rtype)))
  <2> DEFINE ts == Subjects(rel.rtype) \cap Domain(s, rel.lhs)
  <2>1. RelationConstraints(s, rel, uid) = {VarHasTypes(rel.lhs, ts)}
    BY <1>8, TermAssumption DEF RelationConstraints
  <2>2. ts \in SUBSET Type
    BY <1>2
  <2> HIDE DEF ts
  <2> QED BY <1>1, <1>4, <1>8, <2>1, <2>2
<1>9. CASE rel.lhs \notin Type \cup Var
  <2>1. RelationConstraints(s, rel, uid) = {}
    BY <1>9 DEF RelationConstraints
  <2> QED BY <2>1
<1>10. rel.rhs \in Type \cup {Null, Expr} \cup Var
  BY RelationShape DEF Term
<1> QED BY <1>5, <1>6, <1>7, <1>8, <1>9, <1>10

\* What visit_relation makes of a relation, case by case.
LEMMA ConstraintsByCase ==
  ASSUME NEW s, NEW rel, NEW uid \in BOOLEAN
  PROVE  /\ IsTypeRestriction(rel) =>
              Constraints(s, rel, uid) = {VarHasTypes(rel.lhs, RestrictedTypes(rel))}
         /\ (~IsTypeRestriction(rel) /\ rel.rtype = "identity" /\ rel.neged) => Constraints(s, rel, uid) = {}
         /\ (~IsTypeRestriction(rel) /\ ~(rel.rtype = "identity" /\ rel.neged)
               /\ uid /\ rel.rtype \in Uid /\ UidTypes(rel) # {}) =>
              Constraints(s, rel, uid) = {VarHasTypes(rel.lhs, UidTypes(rel))}
         /\ (~IsTypeRestriction(rel) /\ ~(rel.rtype = "identity" /\ rel.neged)
               /\ ~(uid /\ rel.rtype \in Uid /\ UidTypes(rel) # {})) =>
              Constraints(s, rel, uid) = RelationConstraints(s, rel, uid)
<1>1. rel.rtype \in Uid => rel.rtype # "identity" /\ ~IsTypeRestriction(rel)
  BY SchemaAssumption DEF IsTypeRestriction
<1>2. rel.rtype = "identity" => ~IsTypeRestriction(rel)
  BY DEF IsTypeRestriction
<1>3. CASE IsTypeRestriction(rel)
  BY <1>1, <1>2, <1>3 DEF Constraints
<1>4. CASE rel.rtype = "identity" /\ rel.neged
  BY <1>1, <1>2, <1>4 DEF Constraints
<1>5. CASE uid /\ rel.rtype \in Uid /\ UidTypes(rel) # {}
  BY <1>1, <1>2, <1>5 DEF Constraints
<1>6. CASE /\ ~IsTypeRestriction(rel) /\ ~(rel.rtype = "identity" /\ rel.neged)
           /\ ~(uid /\ rel.rtype \in Uid /\ UidTypes(rel) # {})
  BY <1>6 DEF Constraints
<1> QED BY <1>1, <1>2, <1>3, <1>4, <1>5, <1>6

LEMMA ProblemIsPosed ==
  ASSUME TypeOK, Parsed, NEW s \in Select, NEW r \in Resolver, NEW uid \in BOOLEAN
  PROVE  \A c \in Problem(s, r, uid) : Posed(s, c)
<1>1. ASSUME NEW rel \in Visited(s, r), NEW c \in Constraints(s, rel, uid)
      PROVE  Posed(s, c)
  <2>1. rel \in tree.where[s]
    BY DEF Visited
  <2>2. rel \in Relation /\ TermsOf(rel) \cap Var \subseteq Names(s) /\ (rel.rtype \in Uid => rel.lhs \in Var)
    BY <2>1, QueryFacts
  <2>3. CASE IsTypeRestriction(rel)
    <3>1. c = VarHasTypes(rel.lhs, RestrictedTypes(rel))
      BY <1>1, <2>3, ConstraintsByCase
    <3> QED BY <2>2, <2>3, <3>1, TypeRestrictionShape DEF Posed, AboutOne
  <2>4. CASE ~IsTypeRestriction(rel) /\ ~(rel.rtype = "identity" /\ rel.neged)
             /\ uid /\ rel.rtype \in Uid /\ UidTypes(rel) # {}
    <3>1. UidTypes(rel) \in SUBSET Type
      BY DEF UidTypes
    <3>2. rel.lhs \in Names(s)
      BY <2>2, <2>4, RelationShape
    <3>3. c = VarHasTypes(rel.lhs, UidTypes(rel))
      BY <1>1, <2>4, ConstraintsByCase
    <3> QED BY <3>1, <3>2, <3>3 DEF Posed, AboutOne
  <2>5. CASE ~IsTypeRestriction(rel) /\ c \in RelationConstraints(s, rel, uid)
    BY <2>2, <2>5, RelationIsPosed
  <2> QED BY <1>1, <2>3, <2>4, <2>5, ConstraintsByCase
<1> QED BY <1>1 DEF Problem, Posed, AboutAll

-----------------------------------------------------------------------------
\* The two back-ends.

LEMMA EqualsIsMembership ==
  ASSUME NEW f, NEW v, NEW ts \in SUBSET Type, NEW values, f[v] \in values
  PROVE  Equals(f, v, ts, values) <=> f[v] \in ts
<1>1. IsFiniteSet(ts)
  BY FiniteAssumption, FS_Subset
<1>2. CASE Cardinality(ts) = 1
  <2>1. PICK t : ts = {t}
    BY <1>1, <1>2, FS_Singleton
  <2> QED BY <1>2, <2>1 DEF Equals
<1>3. CASE Cardinality(ts) # 1
  BY <1>3 DEF Equals
<1> QED BY <1>2, <1>3

LEMMA EqualVarsIsEquality ==
  ASSUME NEW vs \in SUBSET Var, NEW f, \A v \in vs : f[v] \in Type
  PROVE  EqualVars(vs, f) <=> \A v, w \in vs : f[v] = f[w]
<1> DEFINE image == {f[v] : v \in vs}
<1>1. IsFiniteSet(vs)
  BY FiniteAssumption, FS_Subset
<1>2. CASE vs = {}
  BY <1>1, <1>2, FS_EmptySet DEF EqualVars
<1>3. CASE \E v : vs = {v}
  <2>1. Cardinality(vs) = 1
    BY <1>1, <1>3, FS_Singleton
  <2> QED BY <1>3, <2>1 DEF EqualVars
<1>4. CASE vs # {} /\ ~\E v : vs = {v}
  <2>1. Cardinality(vs) \in Nat /\ Cardinality(vs) # 0 /\ Cardinality(vs) # 1
    BY <1>1, <1>4, FS_CardinalityType, FS_EmptySet, FS_Singleton
  <2>2. EqualVars(vs, f) <=> Cardinality(image) = 1
    BY <2>1 DEF EqualVars
  <2>3. IsFiniteSet(image)
    BY FiniteAssumption, FS_Subset
  <2>4. Cardinality(image) = 1 <=> \E t : image = {t}
    BY <2>3, FS_Singleton
  <2>5. ASSUME NEW t, image = {t}, NEW v \in vs, NEW w \in vs
        PROVE  f[v] = f[w]
    <3>1. f[v] \in image /\ f[w] \in image
      OBVIOUS
    <3> QED BY <2>5, <3>1
  <2>6. ASSUME \A v, w \in vs : f[v] = f[w]
        PROVE  \E t : image = {t}
    <3>1. PICK v \in vs : TRUE
      BY <1>4
    <3>2. image = {f[v]}
      BY <2>6, <3>1
    <3> QED BY <3>2
  <2> HIDE DEF image
  <2> QED BY <2>2, <2>4, <2>5, <2>6
<1> QED BY <1>2, <1>3, <1>4

\* The back-ends accept the same assignments.
LEMMA AcceptsAgree ==
  ASSUME TypeOK, Parsed, NEW s \in Select, NEW c, Posed(s, c), NEW f, NEW values,
         \A v \in Names(s) : f[v] \in Type \cap values
  PROVE  PythonAccepts(c, f) <=> GecodeAccepts(c, f, values)
<1>1. CASE AboutOne(s, c)
  <2>1. PICK v \in Names(s), ts \in SUBSET Type : c = VarHasTypes(v, ts)
    BY <1>1 DEF AboutOne
  <2>2. c.name = "var_has_types" /\ c.var = v /\ c.types = ts
    BY <2>1 DEF VarHasTypes
  <2>3. PythonAccepts(c, f) <=> f[v] \in ts
    BY <2>2 DEF PythonAccepts
  <2>4. GecodeAccepts(c, f, values) <=> Equals(f, v, ts, values)
    BY <2>2 DEF GecodeAccepts
  <2> QED BY <2>3, <2>4, EqualsIsMembership
<1>2. CASE AboutTwo(s, c)
  <2>1. c.name = "or_and" /\ c.rhs \in Names(s) /\ \A case \in c.cases : case[2] \in SUBSET Type
    BY <1>2 DEF AboutTwo
  <2>2. PythonAccepts(c, f) <=> \E case \in c.cases : f[c.lhs] = case[1] /\ f[c.rhs] \in case[2]
    BY <2>1 DEF PythonAccepts
  <2>3. GecodeAccepts(c, f, values) <=>
          \E case \in c.cases : f[c.lhs] = case[1] /\ Equals(f, c.rhs, case[2], values)
    BY <2>1 DEF GecodeAccepts
  <2>4. \A case \in c.cases : Equals(f, c.rhs, case[2], values) <=> f[c.rhs] \in case[2]
    BY <2>1, EqualsIsMembership
  <2> QED BY <2>2, <2>3, <2>4
<1>3. CASE AboutAll(s, c)
  <2>1. c.name = "vars_have_same_types" /\ c.vars = SelectedVars(s) /\ c.types = Type \ Final
    BY <1>3 DEF AboutAll
  <2>2. c.vars \in SUBSET Var /\ c.vars \subseteq Names(s) /\ c.types \in SUBSET Type
    BY <2>1, QueryFacts DEF SelectedVars
  <2>3. PythonAccepts(c, f) <=> \A v, w \in c.vars : f[v] = f[w] /\ f[v] \in c.types
    BY <2>1 DEF PythonAccepts
  <2>4. GecodeAccepts(c, f, values) <=> EqualVars(c.vars, f) /\ \A v \in c.vars : Equals(f, v, c.types, values)
    BY <2>1 DEF GecodeAccepts
  <2>5. EqualVars(c.vars, f) <=> \A v, w \in c.vars : f[v] = f[w]
    BY <2>2, EqualVarsIsEquality
  <2>6. \A v \in c.vars : Equals(f, v, c.types, values) <=> f[v] \in c.types
    BY <2>2, EqualsIsMembership
  <2> QED BY <2>3, <2>4, <2>5, <2>6
<1> QED BY <1>1, <1>2, <1>3 DEF Posed

\* Where gecode raises, Python finds nothing.
LEMMA RaisesAgree ==
  ASSUME NEW s \in Select, NEW c, Posed(s, c), NEW f, NEW values,
         \A v \in Names(s) : f[v] \in values, GecodeRaises(c, values)
  PROVE  ~PythonAccepts(c, f)
<1>1. PICK v \in Names(s), ts \in SUBSET Type : c = VarHasTypes(v, ts)
  BY DEF Posed, AboutOne, AboutTwo, AboutAll, GecodeRaises
<1>2. c.name = "var_has_types" /\ c.var = v /\ c.types = ts
  BY <1>1 DEF VarHasTypes
<1>3. IsFiniteSet(ts) /\ Cardinality(ts) = 1 /\ ~(ts \subseteq values)
  BY <1>2, FiniteAssumption, FS_Subset DEF GecodeRaises
<1>4. PICK t : ts = {t}
  BY <1>3, FS_Singleton
<1>5. PythonAccepts(c, f) <=> f[v] \in ts
  BY <1>2 DEF PythonAccepts
<1> QED BY <1>3, <1>4, <1>5

\* The two back-ends find the same solutions to every problem about any SELECT.
LEMMA SolutionsAgree ==
  ASSUME TypeOK, Parsed, NEW s \in Select, NEW r \in Resolver, NEW uid \in BOOLEAN
  PROVE  PythonSolutions(s, Problem(s, r, uid)) = GecodeSolutions(s, Problem(s, r, uid))
<1> DEFINE problem == Problem(s, r, uid)
           values == UNION {Domain(s, v) : v \in Names(s)}
<1>1. \A c \in problem : Posed(s, c)
  BY ProblemIsPosed
<1>2. \A f \in Assignments(s) : \A v \in Names(s) : f[v] \in Type \cap values
  BY DEF Assignments
<1>3. GecodeSolutions(s, problem) =
        IF \E c \in problem : GecodeRaises(c, values) THEN {}
        ELSE {f \in Assignments(s) : \A c \in problem : GecodeAccepts(c, f, values)}
  BY DEF GecodeSolutions
<1> HIDE DEF problem, values
<1>4. \A f \in Assignments(s) : \A c \in problem : PythonAccepts(c, f) <=> GecodeAccepts(c, f, values)
  BY <1>1, <1>2, AcceptsAgree
<1>5. ASSUME NEW c \in problem, GecodeRaises(c, values)
      PROVE  \A f \in Assignments(s) : ~PythonAccepts(c, f)
  BY <1>1, <1>2, <1>5, RaisesAgree
<1>6. PythonSolutions(s, problem) = {f \in Assignments(s) : \A c \in problem : PythonAccepts(c, f)}
  BY DEF PythonSolutions
<1>7. PythonSolutions(s, problem) = GecodeSolutions(s, problem)
  <2>1. CASE \E c \in problem : GecodeRaises(c, values)
    BY <1>3, <1>5, <1>6, <2>1
  <2>2. CASE ~\E c \in problem : GecodeRaises(c, values)
    BY <1>3, <1>4, <1>6, <2>2
  <2> QED BY <2>1, <2>2
<1> QED BY <1>7 DEF problem

-----------------------------------------------------------------------------
\* Every step keeps the shape.

LEMMA CallFacts ==
  ASSUME ShapeInv, call # NoCall
  PROVE  /\ call \in [resolver : Resolver, given : BOOLEAN, next : Nat \ {0}, path : Seq(Frame)]
         /\ call.resolver \in Resolver /\ call.given \in BOOLEAN /\ call.next \in Nat \ {0}
         /\ call.path \in Seq(Frame) /\ call.path # <<>>
         /\ Innermost \in Frame /\ Current \in Select /\ Innermost.next \in Nat \ {0}
         /\ Tail(call.path) \in Seq(Frame)
         /\ Len(Tail(call.path)) = Len(call.path) - 1 /\ Len(call.path) \in Nat \ {0}
<1>1. call \in [resolver : Resolver, given : BOOLEAN, next : Nat \ {0}, path : Seq(Frame)]
  BY DEF ShapeInv, TypeOK, Call
<1>2. call.path \in Seq(Frame) /\ call.path # <<>>
  BY <1>1 DEF ShapeInv, PathInv
<1>3. Innermost \in Frame /\ Tail(call.path) \in Seq(Frame) /\ Len(Tail(call.path)) = Len(call.path) - 1
  BY <1>2, HeadTailProperties DEF Innermost
<1>4. Len(call.path) \in Nat \ {0}
  BY <1>2, EmptySeq
<1> QED BY <1>1, <1>2, <1>3, <1>4 DEF Frame, Current

LEMMA EnteredPath ==
  ASSUME NEW s \in Select
  PROVE  Entered(s) \in Frame /\ <<Entered(s)>> \in Seq(Frame) /\ <<Entered(s)>> # <<>>
BY DEF Entered, Frame

LEMMA SolutionsAreAssignments ==
  ASSUME NEW s, NEW r
  PROVE  Solutions(s, r) \subseteq [Names(s) -> Type]
BY DEF Solutions, GecodeSolutions, Assignments

LEMMA InitShape == Init => ShapeInv
<1> SUFFICES ASSUME Init PROVE ShapeInv
  OBVIOUS
<1>1. PICK q \in Queries :
        /\ query = q.query
        /\ tree = q.tree
        /\ solutions = [s \in Select |-> {}]
        /\ types = [k \in {"possibletypes", "allpossibletypes"} |->
                      [s \in Select |-> [v \in q.query.vars[s] \cup Range(q.query.aliases[s]) |-> {}]]]
  BY DEF Init
<1>2. tree \in Tree
  BY <1>1, QueriesAssumption
<1>3. ASSUME NEW s \in Select
      PROVE  /\ solutions[s] \subseteq [Names(s) -> Type]
             /\ \A r \in Resolver : types[Key(r)][s] \in [Names(s) -> SUBSET Type]
  BY <1>1 DEF Names, NamesOf, Key
<1>4. mapping \in [Resolver -> {"empty", "given", "None"}] /\ answered \in [Resolver -> {"no", "yes", "with uid"}]
  BY DEF Init
<1>5. call \in Call /\ PathInv
  BY DEF Init, Call, PathInv
<1>6. TypeOK
  BY <1>2, <1>3, <1>4, <1>5 DEF TypeOK
<1>7. ParsedFrom(q)
  BY <1>1 DEF ParsedFrom
<1>8. Domains
  BY <1>1 DEF Domains
<1> QED BY <1>5, <1>6, <1>7, <1>8 DEF ShapeInv, Parsed

\* An edit keeps the shape.
LEMMA EditKeepsShape ==
  ASSUME ShapeInv, NEW e \in query.edits, AddRelation(e[1], e[2]) \/ RemoveRelation(e[1], e[2])
  PROVE  ShapeInv'
<1>1. /\ UNCHANGED <<query, solutions, types, mapping, call>> /\ answered' = Unanswered
      /\ tree' = [tree EXCEPT !.where[e[1]] = @ \cup {e[2]}] \/ tree' = [tree EXCEPT !.where[e[1]] = @ \ {e[2]}]
  BY DEF AddRelation, RemoveRelation
<1>2. e \in Select \X Relation /\ tree \in Tree
  BY QueryFacts DEF ShapeInv, Query, TypeOK
<1>3. /\ tree' \in Tree /\ tree'.subquery = tree.subquery
      /\ \A s \in Select : \A rel \in tree'.where[s] : rel \in tree.where[s] \/ <<s, rel>> \in query.edits
  BY <1>1, <1>2 DEF Tree
<1>4. answered' \in [Resolver -> {"no", "yes", "with uid"}]
  BY <1>1 DEF Unanswered
<1>5. TypeOK'
  BY <1>1, <1>3, <1>4 DEF ShapeInv, TypeOK, Names, NamesOf
<1>6. Parsed'
  <2>1. PICK q \in Queries : ParsedFrom(q)
    BY DEF ShapeInv, Parsed
  <2>2. ParsedFrom(q)'
    BY <1>1, <1>3, <2>1 DEF ParsedFrom
  <2> QED BY <2>2 DEF Parsed
<1> QED BY <1>1, <1>5, <1>6 DEF ShapeInv, Domains, PathInv

LEMMA VisitKeepsShape ==
  ASSUME ShapeInv, NEW r \in Resolver, NEW given \in BOOLEAN, Visit(r, given)
  PROVE  ShapeInv'
<1>1. query.top \in Seq(Select) /\ query.top # <<>>
  BY QueryFacts DEF ShapeInv
<1>2. <<Entered(Head(query.top))>> \in Seq(Frame) /\ <<Entered(Head(query.top))>> # <<>>
  BY <1>1, HeadTailProperties, EnteredPath
<1>3. call' \in Call /\ PathInv'
  BY <1>2 DEF Visit, Call, PathInv
<1>4. mapping' \in [Resolver -> {"empty", "given", "None"}] /\ answered' \in [Resolver -> {"no", "yes", "with uid"}]
  BY DEF Visit, ShapeInv, TypeOK, Unanswered
<1>5. UNCHANGED <<tree, query, solutions, types>>
  BY DEF Visit
<1>6. TypeOK'
  BY <1>3, <1>4, <1>5 DEF ShapeInv, TypeOK, Names, NamesOf
<1> QED BY <1>3, <1>5, <1>6 DEF ShapeInv, Parsed, ParsedFrom, Domains

LEMMA DescendKeepsShape ==
  ASSUME ShapeInv, Descend
  PROVE  ShapeInv'
<1>1. PICK i \in Coming :
        call' = [call EXCEPT !.path =
                   <<Entered(query.with[Current][i]), [Innermost EXCEPT !.next = i + 1]>> \o Tail(@)]
  BY DEF Descend
<1>2. i \in Innermost.next .. Len(query.with[Current]) /\ call # NoCall
  BY DEF Descend, Coming
<1>3. i \in 1 .. Len(query.with[Current]) /\ query.with[Current] \in Seq(Select)
  BY <1>2, CallFacts, QueryFacts DEF ShapeInv
<1>4. query.with[Current][i] \in Select
  BY <1>3, ElementOfSeq
<1> DEFINE new == <<Entered(query.with[Current][i]), [Innermost EXCEPT !.next = i + 1]>>
<1>5. new \in Seq(Frame) /\ Len(new) = 2
  <2>1. Entered(query.with[Current][i]) \in Frame
    BY <1>4, EnteredPath
  <2>2. Innermost \in [select : Select, next : Nat \ {0}] /\ i + 1 \in Nat \ {0}
    BY <1>2, <1>3, CallFacts, LenProperties DEF Frame
  <2>3. [Innermost EXCEPT !.next = i + 1] \in Frame
    BY <2>2 DEF Frame
  <2> QED BY <2>1, <2>3
<1> HIDE DEF new
<1>6. new \o Tail(call.path) \in Seq(Frame) /\ new \o Tail(call.path) # <<>>
  <2> DEFINE rest == Tail(call.path)
  <2>1. rest \in Seq(Frame)
    BY <1>2, CallFacts
  <2> HIDE DEF rest
  <2>2. new \o rest \in Seq(Frame) /\ Len(new \o rest) = Len(new) + Len(rest)
    BY <1>5, <2>1, ConcatProperties
  <2>3. Len(rest) \in Nat
    BY <2>1, LenProperties
  <2>4. new \o rest # <<>>
    BY <1>5, <2>2, <2>3, EmptySeq
  <2> QED BY <2>2, <2>4 DEF rest
<1>7. call' = [call EXCEPT !.path = new \o Tail(call.path)]
  BY <1>1 DEF new
<1>8. call' \in Call /\ call'.path = new \o Tail(call.path)
  BY <1>2, <1>6, <1>7, CallFacts DEF Call
<1>9. UNCHANGED <<tree, query, solutions, types, mapping, answered>>
  BY DEF Descend
<1>10. TypeOK'
  BY <1>8, <1>9 DEF ShapeInv, TypeOK, Names, NamesOf
<1> QED BY <1>6, <1>8, <1>9, <1>10 DEF ShapeInv, Parsed, ParsedFrom, Domains, PathInv

LEMMA ContinueKeepsCall ==
  ASSUME ShapeInv, call # NoCall, Continue
  PROVE  /\ call' \in Call /\ PathInv'
         /\ mapping' \in [Resolver -> {"empty", "given", "None"}]
         /\ answered' \in [Resolver -> {"no", "yes", "with uid"}]
<1>1. CASE Len(call.path) > 1
  <2>1. call' = [call EXCEPT !.path = Tail(@)] /\ UNCHANGED <<mapping, answered>>
    BY <1>1 DEF Continue
  <2>2. Tail(call.path) \in Seq(Frame) /\ Tail(call.path) # <<>>
    <3> DEFINE rest == Tail(call.path)
               n == Len(call.path)
    <3>1. rest \in Seq(Frame) /\ Len(rest) = n - 1 /\ n \in Nat /\ n > 1
      BY <1>1, CallFacts
    <3> HIDE DEF rest, n
    <3>2. Len(rest) # 0
      BY <3>1
    <3>3. rest # <<>>
      BY <3>2
    <3> QED BY <3>1, <3>3 DEF rest
  <2>3. call' \in Call /\ call'.path = Tail(call.path)
    BY <2>1, <2>2, CallFacts DEF Call
  <2> QED BY <2>1, <2>2, <2>3 DEF PathInv, ShapeInv, TypeOK
<1>2. CASE ~(Len(call.path) > 1) /\ call.next <= Len(query.top)
  <2>1. /\ call' = [call EXCEPT !.next = @ + 1, !.path = <<Entered(query.top[call.next])>>]
        /\ UNCHANGED <<mapping, answered>>
    BY <1>2 DEF Continue
  <2>2. query.top \in Seq(Select) /\ call.next \in Nat \ {0}
    BY CallFacts, QueryFacts DEF ShapeInv
  <2>3. query.top[call.next] \in Select
    BY <1>2, <2>2, LenProperties, ElementOfSeq
  <2>4. <<Entered(query.top[call.next])>> \in Seq(Frame) /\ <<Entered(query.top[call.next])>> # <<>>
    BY <2>3, EnteredPath
  <2> DEFINE path == <<Entered(query.top[call.next])>>
  <2>5. call.next + 1 \in Nat \ {0} /\ path \in Seq(Frame)
    BY <2>2, <2>4
  <2>6. call' = [call EXCEPT !.next = call.next + 1, !.path = path]
    BY <2>1
  <2> HIDE DEF path
  <2>7. call' \in [resolver : Resolver, given : BOOLEAN, next : Nat \ {0}, path : Seq(Frame)] /\ call'.path = path
    BY <2>5, <2>6, CallFacts
  <2> QED BY <2>1, <2>4, <2>7 DEF PathInv, ShapeInv, TypeOK, Call, path
<1>3. CASE ~(Len(call.path) > 1) /\ ~(call.next <= Len(query.top))
  <2>1. /\ call' = NoCall
        /\ mapping' = [mapping EXCEPT ![call.resolver] = IF call.given THEN "None" ELSE @]
        /\ answered' = IF call.resolver = "analyser"
                       THEN [Unanswered EXCEPT ![call.resolver] = How(UsesUid(call.resolver))]
                       ELSE [answered EXCEPT ![call.resolver] =
                               IF answered["analyser"] = "no" THEN "no" ELSE How(UsesUid(call.resolver))]
    BY <1>3 DEF Continue
  <2>2. How(UsesUid(call.resolver)) \in {"no", "yes", "with uid"}
    BY DEF How
  <2>3. mapping' \in [Resolver -> {"empty", "given", "None"}]
    BY <2>1 DEF ShapeInv, TypeOK
  <2>4. answered' \in [Resolver -> {"no", "yes", "with uid"}]
    BY <2>1, <2>2 DEF ShapeInv, TypeOK, Unanswered
  <2> QED BY <2>1, <2>3, <2>4 DEF Call, PathInv
<1> QED BY <1>1, <1>2, <1>3

\* What set_possible_types makes of the solutions and of the subquery.
LEMMA NarrowedFacts ==
  ASSUME ShapeInv, NEW s \in Select, NEW r \in Resolver, NEW found \in SUBSET [Names(s) -> Type],
         SetPossibleTypes(s, found, r), UNCHANGED query
  PROVE  /\ tree' \in Tree /\ tree'.where = tree.where
         /\ \A c \in Select \ {s} : tree'.subquery[c] = tree.subquery[c]
         /\ \A c : c \in tree'.subquery[s] <=> c \in tree.subquery[s] /\ Kept(s, found, c) # {}
         /\ \A c \in Select : solutions'[c] =
              IF c \in tree'.subquery[s] THEN Kept(s, found, c)
              ELSE IF c = s /\ KeepsSolutions(r) THEN found ELSE solutions[c]
         /\ \A c \in Select : types'["possibletypes"][c] =
              IF c \in tree'.subquery[s] THEN TypesIn(c, Kept(s, found, c))
              ELSE IF c = s /\ KeepsSolutions(r) THEN TypesIn(s, found) ELSE types["possibletypes"][c]
         /\ \A c \in Select : types'["allpossibletypes"][c] =
              IF c = s /\ ~KeepsSolutions(r) THEN TypesIn(s, found) ELSE types["allpossibletypes"][c]
         /\ \A c \in Select : solutions'[c] \subseteq [Names(c) -> Type]
         /\ \A c \in Select, q \in Resolver : types'[Key(q)][c] \in [Names(c) -> SUBSET Type]
         /\ Domains' /\ Parsed'
<1> DEFINE narrowed == {c \in tree.subquery[s] : Kept(s, found, c) # {}}
<1>1. /\ tree' = [tree EXCEPT !.subquery[s] = narrowed]
      /\ solutions' = [c \in Select |-> IF c \in narrowed THEN Kept(s, found, c)
                                        ELSE IF c = s /\ KeepsSolutions(r) THEN found
                                        ELSE solutions[c]]
      /\ types' = [k \in DOMAIN types |->
                     [c \in Select |-> IF c \in narrowed /\ k = "possibletypes" THEN TypesIn(c, Kept(s, found, c))
                                       ELSE IF c = s /\ k = Key(r) THEN TypesIn(s, found)
                                       ELSE types[k][c]]]
  BY DEF SetPossibleTypes
<1>2. tree \in Tree /\ narrowed \subseteq tree.subquery[s] /\ narrowed \subseteq Select
  BY DEF ShapeInv, TypeOK, Tree
<1>0. \A c : c \in narrowed <=> c \in tree.subquery[s] /\ Kept(s, found, c) # {}
  OBVIOUS
<1> HIDE DEF narrowed
<1>3. /\ tree' \in Tree /\ tree'.where = tree.where
      /\ \A c \in Select : tree'.subquery[c] = IF c = s THEN narrowed ELSE tree.subquery[c]
  BY <1>1, <1>2 DEF Tree
<1>4. \A c \in Select : Kept(s, found, c) \subseteq solutions[c] /\ solutions[c] \subseteq [Names(c) -> Type]
  BY DEF Kept, ShapeInv, TypeOK
<1>5. \A c \in Select : solutions'[c] =
        IF c \in narrowed THEN Kept(s, found, c) ELSE IF c = s /\ KeepsSolutions(r) THEN found ELSE solutions[c]
  BY <1>1
<1>6. \A c \in Select : solutions'[c] \subseteq [Names(c) -> Type]
  BY <1>4, <1>5
<1>7. DOMAIN types = {"possibletypes", "allpossibletypes"} /\ \A q \in Resolver : Key(q) \in DOMAIN types
  BY DEF ShapeInv, Domains, Key
<1>8. ASSUME NEW c \in Select, NEW fs \in SUBSET [Names(c) -> Type]
      PROVE  TypesIn(c, fs) \in [Names(c) -> SUBSET Type]
  BY DEF TypesIn
<1>9. ASSUME NEW c \in Select, NEW q \in Resolver
      PROVE  types'[Key(q)][c] \in [Names(c) -> SUBSET Type]
  <2>1. types[Key(q)][c] \in [Names(c) -> SUBSET Type]
    BY DEF ShapeInv, TypeOK
  <2>2. /\ TypesIn(c, Kept(s, found, c)) \in [Names(c) -> SUBSET Type]
        /\ TypesIn(s, found) \in [Names(s) -> SUBSET Type]
    BY <1>4, <1>8
  <2>3. types'[Key(q)][c] = IF c \in narrowed /\ Key(q) = "possibletypes" THEN TypesIn(c, Kept(s, found, c))
                           ELSE IF c = s /\ Key(q) = Key(r) THEN TypesIn(s, found)
                           ELSE types[Key(q)][c]
    BY <1>1, <1>7
  <2> QED BY <2>1, <2>2, <2>3
<1>10. Domains'
  <2>1. solutions' = [c \in Select |-> solutions'[c]]
    BY <1>1
  <2>2. types' = [k \in {"possibletypes", "allpossibletypes"} |-> [c \in Select |-> types'[k][c]]]
    BY <1>1, <1>7
  <2> QED BY <2>1, <2>2 DEF Domains
<1>11. Parsed'
  <2>1. PICK q \in Queries : ParsedFrom(q)
    BY DEF ShapeInv, Parsed
  <2>2. \A c \in Select : tree'.subquery[c] \subseteq tree.subquery[c]
    BY <1>2, <1>3
  <2>3. ParsedFrom(q)'
    BY <1>3, <2>1, <2>2 DEF ParsedFrom
  <2> QED BY <2>3 DEF Parsed
<1>12. Key(r) = IF KeepsSolutions(r) THEN "possibletypes" ELSE "allpossibletypes"
  BY DEF Key, KeepsSolutions
<1>13. ASSUME NEW c \in Select
       PROVE  /\ types'["possibletypes"][c] = IF c \in narrowed THEN TypesIn(c, Kept(s, found, c))
                    ELSE IF c = s /\ KeepsSolutions(r) THEN TypesIn(s, found) ELSE types["possibletypes"][c]
              /\ types'["allpossibletypes"][c] =
                    IF c = s /\ ~KeepsSolutions(r) THEN TypesIn(s, found) ELSE types["allpossibletypes"][c]
  BY <1>1, <1>7, <1>12
<1>14. tree'.subquery[s] = narrowed
  BY <1>3
<1> QED BY <1>0, <1>3, <1>5, <1>6, <1>9, <1>10, <1>11, <1>13, <1>14

LEMMA ResolveKeepsShape ==
  ASSUME ShapeInv, Resolve
  PROVE  ShapeInv'
<1>1. call # NoCall /\ Continue /\ UNCHANGED query
  BY DEF Resolve, Ready
<1>2. Current \in Select /\ call.resolver \in Resolver
  BY <1>1, CallFacts
<1>3. /\ call' \in Call /\ PathInv'
      /\ mapping' \in [Resolver -> {"empty", "given", "None"}]
      /\ answered' \in [Resolver -> {"no", "yes", "with uid"}]
  BY <1>1, ContinueKeepsCall
<1> DEFINE Shaped == /\ tree' \in Tree
                     /\ \A c \in Select : solutions'[c] \subseteq [Names(c) -> Type]
                     /\ \A c \in Select, q \in Resolver : types'[Key(q)][c] \in [Names(c) -> SUBSET Type]
                     /\ Domains' /\ Parsed'
<1>4. ASSUME Names(Current) = {}, SetNoTypes(Current)
      PROVE  Shaped
  <2>1. UNCHANGED <<tree, types>> /\ solutions' = [solutions EXCEPT ![Current] = [Names(Current) -> Type]]
    BY <1>4 DEF SetNoTypes
  <2>2. \A c \in Select : solutions'[c] = IF c = Current THEN [Names(Current) -> Type] ELSE solutions[c]
    BY <1>2, <2>1 DEF ShapeInv, Domains
  <2>3. solutions' = [c \in Select |-> solutions'[c]]
    BY <1>2, <2>1 DEF ShapeInv, Domains
  <2>4. Domains' /\ Parsed'
    BY <1>1, <2>1, <2>3 DEF ShapeInv, Domains, Parsed, ParsedFrom
  <2>5. \A c \in Select : solutions'[c] \subseteq [Names(c) -> Type]
    BY <2>2 DEF ShapeInv, TypeOK
  <2> QED BY <2>1, <2>4, <2>5 DEF ShapeInv, TypeOK
<1>5. ASSUME SetPossibleTypes(Current, Solutions(Current, call.resolver), call.resolver)
      PROVE  Shaped
  <2> DEFINE found == Solutions(Current, call.resolver)
  <2>1. found \in SUBSET [Names(Current) -> Type]
    BY SolutionsAreAssignments
  <2>2. SetPossibleTypes(Current, found, call.resolver)
    BY <1>5
  <2> HIDE DEF found
  <2> QED BY <1>1, <1>2, <2>1, <2>2, NarrowedFacts
<1>6. Shaped
  BY <1>4, <1>5 DEF Resolve
<1>7. \A c : Names(c)' = Names(c)
  BY <1>1 DEF Names, NamesOf
<1>8. TypeOK'
  BY <1>3, <1>6, <1>7 DEF TypeOK
<1> QED BY <1>3, <1>6, <1>8 DEF ShapeInv

LEMMA RaiseKeepsShape ==
  ASSUME ShapeInv, ResolveRaises
  PROVE  ShapeInv'
<1>1. UNCHANGED <<tree, query, solutions, types, mapping>> /\ call' = NoCall
  BY DEF ResolveRaises
<1>2. answered' \in [Resolver -> {"no", "yes", "with uid"}]
  BY DEF ResolveRaises, Unanswered, ShapeInv, TypeOK
<1>3. TypeOK'
  BY <1>1, <1>2 DEF ShapeInv, TypeOK, Names, NamesOf, Call
<1> QED BY <1>1, <1>3 DEF ShapeInv, Parsed, ParsedFrom, Domains, PathInv

LEMMA StepKeepsShape == ShapeInv /\ [Next]_vars => ShapeInv'
<1> SUFFICES ASSUME ShapeInv, [Next]_vars PROVE ShapeInv'
  OBVIOUS
<1>1. CASE UNCHANGED vars
  BY <1>1 DEF vars, ShapeInv, TypeOK, Names, NamesOf, Parsed, ParsedFrom, Domains, PathInv
<1>2. ASSUME NEW e \in query.edits, AddRelation(e[1], e[2]) \/ RemoveRelation(e[1], e[2])
      PROVE  ShapeInv'
  BY <1>2, EditKeepsShape
<1>3. ASSUME NEW r \in Resolver, NEW given \in BOOLEAN, Visit(r, given)
      PROVE  ShapeInv'
  BY <1>3, VisitKeepsShape
<1>4. CASE Descend
  BY <1>4, DescendKeepsShape
<1>5. CASE Resolve
  BY <1>5, ResolveKeepsShape
<1>6. CASE ResolveRaises
  BY <1>6, RaiseKeepsShape
<1> QED BY <1>1, <1>2, <1>3, <1>4, <1>5, <1>6 DEF Next

\* The tree, the solutions and the types of every SELECT, whatever calls have raised on the
\* way, keep the shape that the code relies on: the names of a SELECT have types, in every
\* solution and under both keys, and the walk is in SELECTs of the query.
THEOREM CallsKeepTheShape == Spec => []ShapeInv
<1> QED BY InitShape, StepKeepsShape, PTL DEF Spec

\* ConstraintCSPProblem and GecodeCSPProblem find the same solutions to each problem that a
\* call of the resolvers poses, of any query in any schema: those of a KeyError of gecode
\* have none in Python either.
THEOREM BackEndsAlwaysAgree == Spec => []BackendsAgree
<1>1. ShapeInv => BackendsAgree
  <2> SUFFICES ASSUME ShapeInv, Ready
               PROVE  PythonSolutions(Current, Problem(Current, call.resolver, UsesUid(call.resolver))) =
                        GecodeSolutions(Current, Problem(Current, call.resolver, UsesUid(call.resolver)))
    BY DEF BackendsAgree
  <2>1. Current \in Select /\ call.resolver \in Resolver
    BY CallFacts DEF Ready
  <2>2. UsesUid(call.resolver) \in BOOLEAN
    BY DEF UsesUid
  <2> QED BY <2>1, <2>2, SolutionsAgree DEF ShapeInv
<1> QED BY <1>1, CallsKeepTheShape, PTL
-----------------------------------------------------------------------------
\* The walk of a call, and what it has solved so far.

\* The SELECTs of the subquery of each, as parsed: calls only remove some.
Within == [s \in Select |-> Range(query.with[s])]

\* The frames of a path are below one another, each at the position that was entered last;
\* the outermost is in the root.
Walk(next, path) ==
  /\ path \in Seq(Frame) /\ path # <<>>
  /\ next - 1 \in DOMAIN query.top
  /\ path[Len(path)].select = query.top[next - 1]
  /\ \A k \in DOMAIN path : k < Len(path) =>
       /\ path[k + 1].next - 1 \in DOMAIN query.with[path[k + 1].select]
       /\ path[k].select = query.with[path[k + 1].select][path[k + 1].next - 1]
  /\ \A k, j \in DOMAIN path : j <= k => path[j].select \in Below(Within, path[k].select)

WalkInv ==
  call # NoCall =>
    Walk(call.next, call.path) /\ \A k \in DOMAIN call.path : call.path[k].select \in InQuery

\* The solutions of s fit; each solution of a SELECT of its subquery can be extended to one
\* of s, and none of these SELECTs is left without a solution.
Settled(s, uid) ==
  /\ solutions[s] # {}
  /\ types["possibletypes"][s] = TypesIn(s, solutions[s])
  /\ \A f \in solutions[s] : Fits(s, f, uid)
  /\ OneColumn(s) =>
       \A c \in tree.subquery[s] : \A g \in solutions[c] : \A i \in DOMAIN query.aliases[s] :
         \E f \in [Names(s) -> Type] :
           Fits(s, f, uid) /\ f[query.aliases[s][i]] = TermType(query.columns[c][i], g)

\* The solutions of s are all those that fit: so it is until a SELECT around s narrows it.
Whole(s, uid) == OneColumn(s) => solutions[s] = {f \in [Names(s) -> Type] : Fits(s, f, uid)}

Covers(s) ==
  OneColumn(s) =>
    \A v \in Names(s) : types["possibletypes"][s][v] \subseteq types["allpossibletypes"][s][v]

AnsweredUid == answered["analyser"] = "with uid"

\* What a call has made of a SELECT that it has left.
Solved(s, r, uid) == IF r = "analyser" THEN Settled(s, uid) ELSE Covers(s)

SolvedBelow(s, r, uid) == \A t \in Below(tree.subquery, s) : Solved(t, r, uid)

SolvedRoot(s, r, uid) == SolvedBelow(s, r, uid) /\ (r = "analyser" => Whole(s, uid))

\* All that comes before the places that the walk is at is solved.
SolvedUpTo(next, path, r, uid) ==
  /\ \A k \in DOMAIN path : \A i \in DOMAIN query.with[path[k].select] :
       (/\ i < path[k].next /\ (k > 1 => i # path[k].next - 1)
        /\ query.with[path[k].select][i] \in tree.subquery[path[k].select]) =>
         SolvedBelow(query.with[path[k].select][i], r, uid)
  /\ \A i \in DOMAIN query.top : i < next - 1 => SolvedRoot(query.top[i], r, uid)

SolvedInv ==
  (call # NoCall /\ (call.resolver = "itr_analyser" => answered["analyser"] # "no")) =>
    SolvedUpTo(call.next, call.path, call.resolver, UsesUid(call.resolver))

\* compute_solutions has answered, and no other call of it has begun.
Standing == answered["analyser"] # "no" /\ (call # NoCall => call.resolver = "itr_analyser")

AllSettled(uid) ==
  /\ \A s \in InQuery : Settled(s, uid)
  /\ \A s \in Range(query.top) : Whole(s, uid)

AnsweredInv ==
  /\ Standing => AllSettled(AnsweredUid)
  /\ (Standing /\ call # NoCall) => answered["analyser"] = How(UsesUid("itr_analyser"))
  /\ (Standing /\ Answered("itr_analyser")) => \A s \in InQuery : Covers(s)
  /\ answered["itr_analyser"] # "no" => answered["analyser"] # "no"

FitInv == WalkInv /\ SolvedInv /\ AnsweredInv

-----------------------------------------------------------------------------
\* What is below a SELECT.

LEMMA BelowFacts ==
  ASSUME NEW T \in [Select -> SUBSET Select], NEW s \in Select
  PROVE  /\ s \in Below(T, s) /\ Below(T, s) \subseteq Select
         /\ \A t \in Below(T, s) : T[t] \subseteq Below(T, s) /\ Below(T, t) \subseteq Below(T, s)
<1>1. s \in Below(T, s) /\ Below(T, s) \subseteq Select
  BY DEF Below
<1>2. ASSUME NEW t \in Below(T, s)
      PROVE  T[t] \subseteq Below(T, s)
  <2>1. t \in Select /\ T[t] \subseteq Select
    BY <1>1
  <2>2. ASSUME NEW S \in SUBSET Select, s \in S, Closed(T, S)
        PROVE  T[t] \subseteq S
    BY <2>2 DEF Below, Closed
  <2> QED BY <2>1, <2>2 DEF Below
<1>3. ASSUME NEW t \in Below(T, s)
      PROVE  Below(T, t) \subseteq Below(T, s)
  BY <1>3 DEF Below
<1> QED BY <1>1, <1>2, <1>3

LEMMA BelowMonotone ==
  ASSUME NEW T \in [Select -> SUBSET Select], NEW U \in [Select -> SUBSET Select],
         \A s \in Select : T[s] \subseteq U[s], NEW s \in Select
  PROVE  Below(T, s) \subseteq Below(U, s)
<1>1. \A S \in SUBSET Select : Closed(U, S) => Closed(T, S)
  BY DEF Closed
<1> QED BY <1>1 DEF Below

LEMMA BelowStep ==
  ASSUME NEW T \in [Select -> SUBSET Select], NEW s \in Select, NEW t \in Below(T, s), t # s
  PROVE  \E c \in T[s] : t \in Below(T, c)
<1> DEFINE S == {s} \cup UNION {Below(T, c) : c \in T[s]}
<1>1. \A c \in T[s] : c \in Select
  OBVIOUS
<1>2. S \in SUBSET Select
  BY <1>1, BelowFacts
<1>3. T[s] \subseteq S
  BY <1>1, BelowFacts
<1>4. ASSUME NEW c \in T[s], NEW u \in Below(T, c)
      PROVE  T[u] \subseteq S
  BY <1>1, BelowFacts
<1>5. Closed(T, S)
  BY <1>3, <1>4 DEF Closed
<1>6. t \in S
  BY <1>2, <1>5 DEF Below
<1> QED BY <1>6

\* Only what is below a removed SELECT can leave.
LEMMA BelowPruned ==
  ASSUME NEW T \in [Select -> SUBSET Select], NEW U \in [Select -> SUBSET Select],
         NEW W \in [Select -> SUBSET Select], \A u \in Select : T[u] \subseteq W[u],
         NEW s \in Select, \A u \in Select \ {s} : U[u] = T[u],
         NEW r \in Select, NEW t \in Below(T, r), \A c \in T[s] : t \notin Below(W, c)
  PROVE  t \in Below(U, r)
<1>1. SUFFICES ASSUME NEW S \in SUBSET Select, r \in S, Closed(U, S)
               PROVE  t \in S
  BY DEF Below
<1> DEFINE All == S \cup UNION {Below(W, c) : c \in T[s]}
<1>2. \A c \in T[s] : c \in Select
  OBVIOUS
<1>3. All \in SUBSET Select
  BY <1>2, BelowFacts
<1>4. ASSUME NEW u \in All
      PROVE  T[u] \subseteq All
  <2>1. CASE u = s
    BY <1>2, <2>1, BelowFacts
  <2>2. CASE u \in S /\ u # s
    BY <1>1, <2>2 DEF Closed
  <2>3. CASE \E c \in T[s] : u \in Below(W, c)
    <3>1. PICK c \in T[s] : u \in Below(W, c)
      BY <2>3
    <3>2. W[u] \subseteq Below(W, c) /\ u \in Select
      BY <1>2, <3>1, BelowFacts
    <3> QED BY <3>2
  <2> QED BY <2>1, <2>2, <2>3
<1>5. Closed(T, All)
  BY <1>4 DEF Closed
<1>6. t \in All
  BY <1>1, <1>3, <1>5 DEF Below
<1> QED BY <1>6

LEMMA WithinFacts ==
  ASSUME ShapeInv
  PROVE  /\ Within \in [Select -> SUBSET Select]
         /\ tree.subquery \in [Select -> SUBSET Select]
         /\ \A s \in Select :
              /\ tree.subquery[s] \subseteq Within[s] /\ Within[s] = Range(query.with[s])
              /\ query.with[s] # <<>> => query.aliases[s] # <<>>
              /\ query.vars[s] \cap Range(query.aliases[s]) = {}
              /\ Apart(Within, query.with[s])
              /\ \A c \in Within[s] : s \notin Below(Within, c)
              /\ \A t \in Select \ {s} : Within[s] \cap Within[t] = {}
         /\ Apart(Within, query.top)
<1>1. PICK q \in Queries : ParsedFrom(q)
  BY DEF ShapeInv, Parsed
<1>2. /\ query = q.query /\ q.tree \in Tree
      /\ \A s \in Select : q.tree.subquery[s] = Range(q.query.with[s])
  BY <1>1, QueriesAssumption DEF ParsedFrom
<1>3. q.tree.subquery \in [Select -> SUBSET Select]
  BY <1>2 DEF Tree
<1>4. Within = q.tree.subquery
  BY <1>2, <1>3 DEF Within
<1>5. tree.subquery \in [Select -> SUBSET Select]
  BY DEF ShapeInv, TypeOK, Tree
<1>6. \A s \in Select : tree.subquery[s] \subseteq Within[s] /\ Within[s] = Range(query.with[s])
  BY <1>1, <1>4 DEF ParsedFrom, Within
<1>7. ASSUME NEW s \in Select
      PROVE  /\ query.with[s] # <<>> => query.aliases[s] # <<>>
             /\ query.vars[s] \cap Range(query.aliases[s]) = {}
             /\ Apart(Within, query.with[s])
             /\ \A c \in Within[s] : s \notin Below(Within, c)
             /\ \A t \in Select \ {s} : Within[s] \cap Within[t] = {}
  BY <1>2, <1>4, QueriesAssumption
<1>8. Apart(Within, query.top)
  BY <1>2, <1>4, QueriesAssumption
<1> QED BY <1>3, <1>4, <1>5, <1>6, <1>7, <1>8

-----------------------------------------------------------------------------
\* A solution is what fits.

LEMMA OneTypeAccepted ==
  ASSUME NEW v, NEW ts, NEW f
  PROVE  PythonAccepts(VarHasTypes(v, ts), f) <=> f[v] \in ts
BY DEF PythonAccepts, VarHasTypes

\* The types that a relation associates, one by one.
LEMMA PairsOf ==
  ASSUME NEW r \in RelationType
  PROVE  /\ \A t, u : u \in ObjectsOf(r, t) <=> <<t, u>> \in Associations[r]
         /\ \A t, u : t \in SubjectsOf(r, u) <=> <<t, u>> \in Associations[r]
         /\ \A t : t \in Subjects(r) <=> \E u : <<t, u>> \in Associations[r]
         /\ \A u : u \in Objects(r) <=> \E t : <<t, u>> \in Associations[r]
<1> DEFINE as == Associations[r]
           from(t) == {q \in as : q[1] = t}
           to(u) == {q \in as : q[2] = u}
<1>0. /\ \A t, q : q \in from(t) <=> q \in as /\ q[1] = t
      /\ \A u, q : q \in to(u) <=> q \in as /\ q[2] = u
  OBVIOUS
<1>1. \A p \in as : p = <<p[1], p[2]>>
  BY SchemaFacts
<1>2. \A t, u : <<t, u>>[1] = t /\ <<t, u>>[2] = u
  OBVIOUS
<1>3. /\ Subjects(r) = {p[1] : p \in as} /\ Objects(r) = {p[2] : p \in as}
      /\ \A t : SubjectsOf(r, t) = {p[1] : p \in to(t)}
      /\ \A t : ObjectsOf(r, t) = {p[2] : p \in from(t)}
  BY DEF Subjects, Objects, SubjectsOf, ObjectsOf
<1> HIDE DEF as, from, to
<1>4. ASSUME NEW t, NEW u, <<t, u>> \in as
      PROVE  u \in ObjectsOf(r, t) /\ t \in SubjectsOf(r, u) /\ t \in Subjects(r) /\ u \in Objects(r)
  <2>1. <<t, u>> \in from(t) /\ <<t, u>> \in to(u)
    BY <1>0, <1>2, <1>4
  <2>2. u \in ObjectsOf(r, t) /\ t \in SubjectsOf(r, u)
    BY <1>2, <1>3, <2>1
  <2>3. t \in Subjects(r) /\ u \in Objects(r)
    BY <1>2, <1>3, <1>4
  <2> QED BY <2>2, <2>3
<1>5. ASSUME NEW t, NEW u, u \in ObjectsOf(r, t)
      PROVE  <<t, u>> \in as
  <2>1. ObjectsOf(r, t) = {p[2] : p \in from(t)}
    BY <1>3
  <2>2. PICK p \in from(t) : u = p[2]
    BY <1>5, <2>1
  <2>3. p \in as /\ p[1] = t /\ p[2] = u
    BY <1>0, <2>2
  <2>4. p = <<t, u>>
    BY <1>1, <2>3
  <2> QED BY <2>3, <2>4
<1>6. ASSUME NEW t, NEW u, t \in SubjectsOf(r, u)
      PROVE  <<t, u>> \in as
  <2>1. SubjectsOf(r, u) = {p[1] : p \in to(u)}
    BY <1>3
  <2>2. PICK p \in to(u) : t = p[1]
    BY <1>6, <2>1
  <2>3. p \in as /\ p[1] = t /\ p[2] = u
    BY <1>0, <2>2
  <2>4. p = <<t, u>>
    BY <1>1, <2>3
  <2> QED BY <2>3, <2>4
<1>7. ASSUME NEW t, t \in Subjects(r)
      PROVE  \E u : <<t, u>> \in as
  <2>1. PICK p \in as : p[1] = t
    BY <1>3, <1>7
  <2> QED BY <1>1, <2>1
<1>8. ASSUME NEW u, u \in Objects(r)
      PROVE  \E t : <<t, u>> \in as
  <2>1. PICK p \in as : p[2] = u
    BY <1>3, <1>8
  <2> QED BY <1>1, <2>1
<1> QED BY <1>4, <1>5, <1>6, <1>7, <1>8 DEF as

LEMMA TwoTypesAccepted ==
  ASSUME NEW s, NEW rel, rel.rtype \in RelationType, NEW f,
         f[rel.lhs] \in Domain(s, rel.lhs), f[rel.rhs] \in Domain(s, rel.rhs)
  PROVE  PythonAccepts(Associated(s, rel), f) <=> <<f[rel.lhs], f[rel.rhs]>> \in Associations[rel.rtype]
<1> DEFINE c == Associated(s, rel)
           as == Associations[rel.rtype]
<1>1. c.name = "or_and" /\ c.lhs = rel.lhs /\ c.rhs = rel.rhs
  BY DEF Associated
<1>2. PythonAccepts(c, f) <=> \E case \in c.cases : f[rel.lhs] = case[1] /\ f[rel.rhs] \in case[2]
  BY <1>1 DEF PythonAccepts
<1>3. c.cases = {<<t, ObjectsOf(rel.rtype, t) \cap Domain(s, rel.rhs)>> :
                   t \in Subjects(rel.rtype) \cap Domain(s, rel.lhs)}
  BY DEF Associated
<1>4. as \subseteq Type \X Type
  BY SchemaFacts
<1> HIDE DEF c
<1> DEFINE types_of(t) == ObjectsOf(rel.rtype, t) \cap Domain(s, rel.rhs)
           from == Subjects(rel.rtype) \cap Domain(s, rel.lhs)
<1>5. PythonAccepts(c, f) <=> \E t \in from : f[rel.lhs] = t /\ f[rel.rhs] \in types_of(t)
  <2>1. c.cases = {<<t, types_of(t)>> : t \in from}
    BY <1>3
  <2> HIDE DEF types_of, from
  <2>2. ASSUME NEW t \in from, f[rel.lhs] = t, f[rel.rhs] \in types_of(t)
        PROVE  \E case \in c.cases : f[rel.lhs] = case[1] /\ f[rel.rhs] \in case[2]
    <3>1. <<t, types_of(t)>> \in c.cases
      BY <2>1
    <3>2. <<t, types_of(t)>>[1] = t /\ <<t, types_of(t)>>[2] = types_of(t)
      OBVIOUS
    <3> QED BY <2>2, <3>1, <3>2
  <2>3. ASSUME NEW case \in c.cases, f[rel.lhs] = case[1], f[rel.rhs] \in case[2]
        PROVE  \E t \in from : f[rel.lhs] = t /\ f[rel.rhs] \in types_of(t)
    <3>1. PICK t \in from : case = <<t, types_of(t)>>
      BY <2>1
    <3> QED BY <2>3, <3>1
  <2> QED BY <1>2, <2>2, <2>3
<1>6. PythonAccepts(c, f) <=>
        f[rel.lhs] \in Subjects(rel.rtype) /\ f[rel.rhs] \in ObjectsOf(rel.rtype, f[rel.lhs])
  BY <1>5
<1>7. \A t, u : u \in ObjectsOf(rel.rtype, t) <=> <<t, u>> \in as
  BY PairsOf
<1>8. \A t, u : <<t, u>> \in as => t \in Subjects(rel.rtype)
  BY PairsOf
<1> QED BY <1>6, <1>7, <1>8 DEF c

\* A relation that is neither a type restriction nor about a uid.
LEMMA RelationAllows ==
  ASSUME NEW s \in Select, NEW rel \in Relation, ~IsTypeRestriction(rel), NEW uid \in BOOLEAN,
         TermsOf(rel) \cap Var \subseteq Names(s), rel.lhs \in Var \cup Type,
         NEW f, \A v \in Names(s) : f[v] \in Domain(s, v)
  PROVE  (\A c \in RelationConstraints(s, rel, uid) : PythonAccepts(c, f)) <=>
           \/ TermsOf(rel) \cap Var = {}
           \/ rel.rhs = Null /\ ~IsFinal(rel.rtype)
           \/ \E p \in Associations[rel.rtype] :
                MayBe(rel.lhs, p[1], f, uid) /\ MayBe(rel.rhs, p[2], f, uid /\ ~IsFinal(rel.rtype))
<1> DEFINE as == Associations[rel.rtype]
           Accepted == \A c \in RelationConstraints(s, rel, uid) : PythonAccepts(c, f)
           MayBeBoth == \E p \in as :
                          MayBe(rel.lhs, p[1], f, uid) /\ MayBe(rel.rhs, p[2], f, uid /\ ~IsFinal(rel.rtype))
<1>1. /\ rel.rtype \in RelationType /\ rel.rhs \in Term /\ TermsOf(rel) = {rel.lhs, rel.rhs}
      /\ rel.lhs \in Var => rel.lhs \in Names(s) /\ f[rel.lhs] \in Domain(s, rel.lhs)
      /\ rel.rhs \in Var => rel.rhs \in Names(s) /\ f[rel.rhs] \in Domain(s, rel.rhs)
  BY RelationShape
<1>2. as \subseteq Type \X Type
  BY <1>1, SchemaFacts
<1>3. /\ \A t, u : u \in ObjectsOf(rel.rtype, t) <=> <<t, u>> \in as
      /\ \A t, u : t \in SubjectsOf(rel.rtype, u) <=> <<t, u>> \in as
      /\ \A t : t \in Subjects(rel.rtype) <=> \E u : <<t, u>> \in as
      /\ \A u : u \in Objects(rel.rtype) <=> \E t : <<t, u>> \in as
  BY <1>1, PairsOf
<1>4. MayBeBoth <=> \E t, u : /\ <<t, u>> \in as
                              /\ MayBe(rel.lhs, t, f, uid) /\ MayBe(rel.rhs, u, f, uid /\ ~IsFinal(rel.rtype))
  <2>1. \A p \in as : p = <<p[1], p[2]>>
    BY <1>2
  <2>2. \A t, u : <<t, u>>[1] = t /\ <<t, u>>[2] = u
    OBVIOUS
  <2> HIDE DEF as
  <2>3. ASSUME MayBeBoth
        PROVE  \E t, u : /\ <<t, u>> \in as
                         /\ MayBe(rel.lhs, t, f, uid) /\ MayBe(rel.rhs, u, f, uid /\ ~IsFinal(rel.rtype))
    <3>1. PICK p \in as : MayBe(rel.lhs, p[1], f, uid) /\ MayBe(rel.rhs, p[2], f, uid /\ ~IsFinal(rel.rtype))
      BY <2>3
    <3>2. <<p[1], p[2]>> \in as
      BY <2>1
    <3> QED BY <3>1, <3>2
  <2>4. ASSUME NEW t, NEW u, <<t, u>> \in as,
               MayBe(rel.lhs, t, f, uid), MayBe(rel.rhs, u, f, uid /\ ~IsFinal(rel.rtype))
        PROVE  MayBeBoth
    BY <2>2, <2>4
  <2> QED BY <2>3, <2>4
<1>5. CASE rel.lhs \in Type
  <2> DEFINE ts(v) == Domain(s, v) \cap IF uid THEN ObjectsOf(rel.rtype, rel.lhs) ELSE Objects(rel.rtype)
  <2>1. RelationConstraints(s, rel, uid) = {VarHasTypes(v, ts(v)) : v \in {rel.rhs} \cap Var}
    BY <1>5, TermAssumption DEF RelationConstraints
  <2> HIDE DEF ts
  <2>2. CASE rel.rhs \in Var
    <3>1. Accepted <=> f[rel.rhs] \in ts(rel.rhs)
      <4>1. Accepted <=> PythonAccepts(VarHasTypes(rel.rhs, ts(rel.rhs)), f)
        BY <2>1, <2>2
      <4> QED BY <4>1, OneTypeAccepted
    <3>2. Accepted <=> f[rel.rhs] \in IF uid THEN ObjectsOf(rel.rtype, rel.lhs) ELSE Objects(rel.rtype)
      BY <1>1, <2>2, <3>1 DEF ts
    <3>3. Accepted <=> \E t : <<t, f[rel.rhs]>> \in as /\ (uid => rel.lhs = t)
      BY <1>3, <3>2
    <3>4. \A t, u : (MayBe(rel.lhs, t, f, uid) <=> (uid => rel.lhs = t))
                     /\ (MayBe(rel.rhs, u, f, uid /\ ~IsFinal(rel.rtype)) <=> f[rel.rhs] = u)
      BY <1>5, <2>2, TermAssumption DEF MayBe
    <3>5. Accepted <=> MayBeBoth
      BY <1>4, <3>3, <3>4
    <3>6. TermsOf(rel) \cap Var # {} /\ rel.rhs # Null
      BY <1>1, <2>2, TermAssumption
    <3> QED BY <3>5, <3>6
  <2>3. CASE rel.rhs \notin Var
    <3>1. RelationConstraints(s, rel, uid) = {}
      BY <2>1, <2>3
    <3>2. TermsOf(rel) \cap Var = {}
      BY <1>1, <1>5, <2>3, TermAssumption
    <3> QED BY <3>1, <3>2
  <2> QED BY <2>2, <2>3
<1>6. CASE rel.lhs \in Var /\ rel.rhs \in Type \cup {Null} /\ ~IsFinal(rel.rtype)
  <2> DEFINE ts == Domain(s, rel.lhs) \cap
                     IF uid THEN SubjectsOf(rel.rtype, rel.rhs) ELSE Subjects(rel.rtype)
  <2>1. RelationConstraints(s, rel, uid) = IF rel.rhs = Null THEN {} ELSE {VarHasTypes(rel.lhs, ts)}
    BY <1>6, TermAssumption DEF RelationConstraints
  <2> HIDE DEF ts
  <2>2. CASE rel.rhs = Null
    BY <1>6, <2>1, <2>2
  <2>3. CASE rel.rhs # Null
    <3>1. Accepted <=> f[rel.lhs] \in ts
      <4>1. Accepted <=> PythonAccepts(VarHasTypes(rel.lhs, ts), f)
        BY <2>1, <2>3
      <4> QED BY <4>1, OneTypeAccepted
    <3>2. Accepted <=> f[rel.lhs] \in IF uid THEN SubjectsOf(rel.rtype, rel.rhs) ELSE Subjects(rel.rtype)
      BY <1>1, <1>6, <3>1 DEF ts
    <3>3. Accepted <=> \E u : <<f[rel.lhs], u>> \in as /\ (uid => rel.rhs = u)
      BY <1>3, <3>2
    <3>4. \A t, u : (MayBe(rel.lhs, t, f, uid) <=> f[rel.lhs] = t)
                     /\ (MayBe(rel.rhs, u, f, uid /\ ~IsFinal(rel.rtype)) <=> (uid => rel.rhs = u))
      BY <1>6, <2>3, TermAssumption DEF MayBe
    <3>5. Accepted <=> MayBeBoth
      BY <1>4, <3>3, <3>4
    <3>6. TermsOf(rel) \cap Var # {}
      BY <1>1, <1>6
    <3> QED BY <2>3, <3>5, <3>6
  <2> QED BY <2>2, <2>3
<1>7. CASE rel.lhs \in Var /\ rel.rhs \in Var
  <2> DEFINE ts == {t \in Domain(s, rel.lhs) : <<t, t>> \in as}
  <2>1. RelationConstraints(s, rel, uid) =
          {Associated(s, rel)} \cup IF rel.lhs # rel.rhs THEN {} ELSE {VarHasTypes(rel.lhs, ts)}
    BY <1>7, TermAssumption DEF RelationConstraints
  <2>2. PythonAccepts(Associated(s, rel), f) <=> <<f[rel.lhs], f[rel.rhs]>> \in as
    BY <1>1, <1>7, TwoTypesAccepted
  <2>3. PythonAccepts(VarHasTypes(rel.lhs, ts), f) <=> <<f[rel.lhs], f[rel.lhs]>> \in as
    BY <1>1, <1>7, OneTypeAccepted
  <2> HIDE DEF ts
  <2>4. Accepted <=> <<f[rel.lhs], f[rel.rhs]>> \in as
    BY <2>1, <2>2, <2>3
  <2>5. \A t, u : (MayBe(rel.lhs, t, f, uid) <=> f[rel.lhs] = t)
                   /\ (MayBe(rel.rhs, u, f, uid /\ ~IsFinal(rel.rtype)) <=> f[rel.rhs] = u)
    BY <1>7 DEF MayBe
  <2>6. Accepted <=> MayBeBoth
    BY <1>4, <2>4, <2>5
  <2>7. TermsOf(rel) \cap Var # {} /\ rel.rhs # Null
    BY <1>1, <1>7, TermAssumption
  <2> QED BY <2>6, <2>7
<1>8. CASE rel.lhs \in Var /\ (rel.rhs = Expr \/ (rel.rhs \in Type \cup {Null} /\ IsFinal(rel.rtype)))
  <2> DEFINE ts == Subjects(rel.rtype) \cap Domain(s, rel.lhs)
  <2>1. RelationConstraints(s, rel, uid) = {VarHasTypes(rel.lhs, ts)}
    BY <1>8, TermAssumption DEF RelationConstraints
  <2> HIDE DEF ts
  <2>2. Accepted <=> PythonAccepts(VarHasTypes(rel.lhs, ts), f)
    BY <2>1
  <2>3. Accepted <=> f[rel.lhs] \in ts
    BY <2>2, OneTypeAccepted
  <2>4. Accepted <=> \E u : <<f[rel.lhs], u>> \in as
    BY <1>1, <1>3, <1>8, <2>3 DEF ts
  <2>5. \A t, u : (MayBe(rel.lhs, t, f, uid) <=> f[rel.lhs] = t)
                   /\ MayBe(rel.rhs, u, f, uid /\ ~IsFinal(rel.rtype))
    BY <1>8, TermAssumption DEF MayBe
  <2>6. Accepted <=> MayBeBoth
    BY <1>4, <2>4, <2>5
  <2>7. TermsOf(rel) \cap Var # {} /\ ~(rel.rhs = Null /\ ~IsFinal(rel.rtype))
    BY <1>1, <1>8, TermAssumption
  <2> QED BY <2>6, <2>7
<1> QED BY <1>1, <1>5, <1>6, <1>7, <1>8 DEF Term

LEMMA AllowsIsAccepted ==
  ASSUME NEW s \in Select, NEW rel \in Relation, NEW uid \in BOOLEAN,
         TermsOf(rel) \cap Var \subseteq Names(s),
         rel.lhs \in Var \/ (rel.lhs \in Type /\ rel.rtype \notin Uid),
         NEW f, \A v \in Names(s) : f[v] \in Domain(s, v)
  PROVE  (\A c \in Constraints(s, rel, uid) : PythonAccepts(c, f)) <=> Allows(rel, f, uid)
<1>1. CASE IsTypeRestriction(rel)
  <2>1. Constraints(s, rel, uid) = {VarHasTypes(rel.lhs, RestrictedTypes(rel))}
    BY <1>1, ConstraintsByCase
  <2>2. rel \in [rtype : {"is", "is_instance_of"}, lhs : Var, types : SUBSET Type, neged : BOOLEAN]
    BY <1>1, SchemaAssumption DEF Relation, IsTypeRestriction
  <2>3. RestrictedTypes(rel) = IF rel.neged THEN (Type \ Final) \ RestrictedTypes([rel EXCEPT !.neged = FALSE])
                               ELSE RestrictedTypes(rel)
    BY <2>2 DEF RestrictedTypes
  <2>4. Allows(rel, f, uid) <=> f[rel.lhs] \in RestrictedTypes(rel)
    BY <1>1, <2>3 DEF Allows
  <2> QED BY <2>1, <2>4, OneTypeAccepted
<1>2. CASE ~IsTypeRestriction(rel) /\ uid /\ rel.rtype \in Uid /\ UidTypes(rel) # {}
  <2>1. rel.rtype # "identity"
    BY <1>2, SchemaAssumption
  <2>2. Constraints(s, rel, uid) = {VarHasTypes(rel.lhs, UidTypes(rel))}
    BY <1>2, <2>1, ConstraintsByCase
  <2>3. Allows(rel, f, uid) <=> f[rel.lhs] \in UidTypes(rel)
    BY <1>2 DEF Allows
  <2> QED BY <2>2, <2>3, OneTypeAccepted
<1>3. CASE /\ ~IsTypeRestriction(rel) /\ ~(uid /\ rel.rtype \in Uid /\ UidTypes(rel) # {})
           /\ rel.rtype = "identity" /\ rel.neged
  <2>1. Constraints(s, rel, uid) = {}
    BY <1>3, ConstraintsByCase
  <2> QED BY <1>3, <2>1 DEF Allows
<1>4. CASE /\ ~IsTypeRestriction(rel) /\ ~(uid /\ rel.rtype \in Uid /\ UidTypes(rel) # {})
           /\ ~(rel.rtype = "identity" /\ rel.neged)
  <2>1. Constraints(s, rel, uid) = RelationConstraints(s, rel, uid)
    BY <1>4, ConstraintsByCase
  <2>2. Allows(rel, f, uid) <=>
          \/ TermsOf(rel) \cap Var = {}
          \/ rel.rhs = Null /\ ~IsFinal(rel.rtype)
          \/ \E p \in Associations[rel.rtype] :
               MayBe(rel.lhs, p[1], f, uid) /\ MayBe(rel.rhs, p[2], f, uid /\ ~IsFinal(rel.rtype))
    BY <1>4 DEF Allows
  <2>3. rel.lhs \in Var \cup Type
    OBVIOUS
  <2> QED BY <1>4, <2>1, <2>2, <2>3, RelationAllows
<1> QED BY <1>1, <1>2, <1>3, <1>4

\* What Fits says beside the aliases.
FitsWhere(s, f, uid) ==
  /\ \A rel \in tree.where[s] : Allows(rel, f, uid)
  /\ (tree.where[s] = {} /\ query.with[s] = <<>>) =>
       \A v, w \in SelectedVars(s) : f[v] = f[w] /\ f[v] \notin Final

LEMMA ProblemAccepted ==
  ASSUME ShapeInv, NEW s \in Select, NEW uid \in BOOLEAN,
         NEW f \in [Names(s) -> Type], \A v \in Names(s) : f[v] \in Domain(s, v)
  PROVE  (\A c \in Problem(s, "analyser", uid) : PythonAccepts(c, f)) <=> FitsWhere(s, f, uid)
<1>1. \A rel \in tree.where[s] :
        (\A c \in Constraints(s, rel, uid) : PythonAccepts(c, f)) <=> Allows(rel, f, uid)
  BY QueryFacts, AllowsIsAccepted DEF ShapeInv
<1>2. CASE tree.where[s] # {} \/ query.with[s] # <<>>
  <2>1. Problem(s, "analyser", uid) = UNION {Constraints(s, rel, uid) : rel \in tree.where[s]}
    BY <1>2 DEF Problem, Visited
  <2> QED BY <1>1, <1>2, <2>1 DEF FitsWhere
<1>3. CASE tree.where[s] = {} /\ query.with[s] = <<>>
  <2> DEFINE c == [name |-> "vars_have_same_types", vars |-> SelectedVars(s), types |-> Type \ Final]
  <2>1. Problem(s, "analyser", uid) = {c}
    BY <1>3 DEF Problem
  <2>2. PythonAccepts(c, f) <=> \A v, w \in SelectedVars(s) : f[v] = f[w] /\ f[v] \in Type \ Final
    BY DEF PythonAccepts
  <2>3. \A v \in SelectedVars(s) : f[v] \in Type
    BY QueryFacts DEF ShapeInv
  <2> HIDE DEF c
  <2> QED BY <1>3, <2>1, <2>2, <2>3 DEF FitsWhere
<1> QED BY <1>2, <1>3

LEMMA FitsByParts ==
  ASSUME NEW s, NEW f, NEW uid
  PROVE  Fits(s, f, uid) <=>
           /\ OneColumn(s) => \A v \in Range(query.aliases[s]) : f[v] \in AliasTypes(tree, solutions, s, v)
           /\ FitsWhere(s, f, uid)
BY DEF Fits, FitsWhere

LEMMA DomainOfNames ==
  ASSUME ShapeInv, NEW s \in Select, NEW f \in [Names(s) -> Type]
  PROVE  (\A v \in Names(s) : f[v] \in Domain(s, v)) <=>
           \A v \in Range(query.aliases[s]) : f[v] \in AliasTypes(tree, solutions, s, v)
<1>1. query.vars[s] \cap Range(query.aliases[s]) = {}
  BY WithinFacts
<1>2. Names(s) = query.vars[s] \cup Range(query.aliases[s])
  BY DEF Names, NamesOf
<1> QED BY <1>1, <1>2 DEF Domain

\* What compute_solutions finds fits, and where a SELECT has at most one alias, it finds all
\* that fits; compute_all_solutions finds that too.
LEMMA FoundFits ==
  ASSUME ShapeInv, NEW s \in Select, NEW uid \in BOOLEAN,
         NEW f \in PythonSolutions(s, Problem(s, "analyser", uid))
  PROVE  /\ f \in [Names(s) -> Type] /\ Fits(s, f, uid)
         /\ \A v \in Range(query.aliases[s]) : f[v] \in AliasTypes(tree, solutions, s, v)
<1>1. /\ f \in [Names(s) -> Type] /\ \A v \in Names(s) : f[v] \in Domain(s, v)
      /\ \A c \in Problem(s, "analyser", uid) : PythonAccepts(c, f)
  BY DEF PythonSolutions, Assignments
<1>2. FitsWhere(s, f, uid)
  BY <1>1, ProblemAccepted
<1>3. \A v \in Range(query.aliases[s]) : f[v] \in AliasTypes(tree, solutions, s, v)
  BY <1>1, DomainOfNames
<1> QED BY <1>1, <1>2, <1>3, FitsByParts

LEMMA FitsIsFound ==
  ASSUME ShapeInv, NEW s \in Select, OneColumn(s), NEW uid \in BOOLEAN,
         NEW f \in [Names(s) -> Type], Fits(s, f, uid), NEW r \in Resolver
  PROVE  f \in PythonSolutions(s, Problem(s, r, uid))
<1>1. \A v \in Names(s) : f[v] \in Domain(s, v)
  BY FitsByParts, DomainOfNames
<1>2. \A c \in Problem(s, "analyser", uid) : PythonAccepts(c, f)
  BY <1>1, FitsByParts, ProblemAccepted
<1>3. Problem(s, r, uid) \subseteq Problem(s, "analyser", uid)
  BY DEF Problem, Visited, Resolver
<1> QED BY <1>1, <1>2, <1>3 DEF PythonSolutions, Assignments

LEMMA FoundByGecode ==
  ASSUME ShapeInv, NEW s \in Select, NEW r \in Resolver
  PROVE  Solutions(s, r) = PythonSolutions(s, Problem(s, r, UsesUid(r)))
BY SolutionsAgree DEF Solutions, UsesUid, ShapeInv

-----------------------------------------------------------------------------
\* The walk.

LEMMA PathFacts ==
  ASSUME NEW next, NEW path, Walk(next, path)
  PROVE  /\ Len(path) \in Nat \ {0} /\ DOMAIN path = 1 .. Len(path)
         /\ \A k \in 1 .. Len(path) : path[k] \in Frame /\ path[k].select \in Select /\ path[k].next \in Nat \ {0}
<1>1. path \in Seq(Frame) /\ path # <<>>
  BY DEF Walk
<1>2. Len(path) \in Nat \ {0} /\ DOMAIN path = 1 .. Len(path)
  BY <1>1, EmptySeq, LenProperties
<1>3. \A k \in 1 .. Len(path) : path[k] \in Frame
  BY <1>1, ElementOfSeq
<1> QED BY <1>2, <1>3 DEF Frame

\* Out of the innermost SELECT.
LEMMA WalkOut ==
  ASSUME NEW next, NEW path, Walk(next, path), Len(path) > 1
  PROVE  /\ Walk(next, Tail(path))
         /\ Len(Tail(path)) = Len(path) - 1
         /\ \A k \in 1 .. Len(path) - 1 : Tail(path)[k] = path[k + 1]
<1> DEFINE rest == Tail(path)
           n == Len(path)
<1>1. path \in Seq(Frame) /\ path # <<>> /\ n \in Nat /\ n > 1 /\ DOMAIN path = 1 .. n
  BY PathFacts DEF Walk
<1>2. rest \in Seq(Frame) /\ Len(rest) = n - 1 /\ \A k \in 1 .. Len(rest) : rest[k] = path[k + 1]
  BY <1>1, HeadTailProperties
<1>3. DOMAIN rest = 1 .. Len(rest)
  BY <1>2, LenProperties
<1>4. /\ next - 1 \in DOMAIN query.top
      /\ path[n].select = query.top[next - 1]
      /\ \A k \in 1 .. n : k < n =>
           /\ path[k + 1].next - 1 \in DOMAIN query.with[path[k + 1].select]
           /\ path[k].select = query.with[path[k + 1].select][path[k + 1].next - 1]
      /\ \A k, j \in 1 .. n : j <= k => path[j].select \in Below(Within, path[k].select)
  BY <1>1 DEF Walk
<1> HIDE DEF rest, n
<1>5. \A k \in 1 .. n - 1 : rest[k] = path[k + 1] /\ k + 1 \in 1 .. n
  BY <1>1, <1>2
<1>6. rest # <<>>
  BY <1>1, <1>2
<1>7. rest[Len(rest)].select = query.top[next - 1]
  BY <1>1, <1>2, <1>4, <1>5
<1>8. ASSUME NEW k \in 1 .. n - 1, k < n - 1
      PROVE  /\ rest[k + 1].next - 1 \in DOMAIN query.with[rest[k + 1].select]
             /\ rest[k].select = query.with[rest[k + 1].select][rest[k + 1].next - 1]
  <2>1. k + 1 \in 1 .. n /\ k + 1 < n /\ k + 1 \in 1 .. n - 1
    BY <1>1, <1>8
  <2>2. rest[k] = path[k + 1] /\ rest[k + 1] = path[(k + 1) + 1]
    BY <1>5, <2>1
  <2> QED BY <1>4, <2>1, <2>2
<1>9. ASSUME NEW k \in 1 .. n - 1, NEW j \in 1 .. n - 1, j <= k
      PROVE  rest[j].select \in Below(Within, rest[k].select)
  BY <1>1, <1>4, <1>5, <1>9
<1>10. DOMAIN rest = 1 .. n - 1 /\ Len(rest) = n - 1
  BY <1>2, <1>3
<1>11. Walk(next, rest)
  BY <1>2, <1>4, <1>6, <1>7, <1>8, <1>9, <1>10 DEF Walk
<1> QED BY <1>5, <1>10, <1>11 DEF rest, n

\* Into a SELECT of the root.
LEMMA WalkTop ==
  ASSUME ShapeInv, NEW i \in DOMAIN query.top
  PROVE  Walk(i + 1, <<Entered(query.top[i])>>)
<1>1. query.top \in Seq(Select)
  BY QueryFacts DEF ShapeInv
<1>2. i \in 1 .. Len(query.top) /\ i \in Int /\ query.top[i] \in Select
  BY <1>1, LenProperties, ElementOfSeq
<1> DEFINE path == <<Entered(query.top[i])>>
<1>3. path \in Seq(Frame) /\ path # <<>>
  BY <1>2, EnteredPath
<1>4. Len(path) = 1 /\ DOMAIN path = {1} /\ path[1].select = query.top[i]
  BY DEF Entered
<1>5. query.top[i] \in Below(Within, query.top[i])
  BY <1>2, WithinFacts, BelowFacts
<1>6. (i + 1) - 1 = i
  BY <1>2
<1> HIDE DEF path
<1>7. \A k \in DOMAIN path : ~(k < Len(path))
  BY <1>4
<1>8. Walk(i + 1, path)
  BY <1>3, <1>4, <1>5, <1>6, <1>7 DEF Walk
<1> QED BY <1>8 DEF path

\* Into a SELECT of the subquery of the innermost.
Deeper(path, c, i) == <<Entered(c), [path[1] EXCEPT !.next = i + 1]>> \o Tail(path)

LEMMA WalkIn ==
  ASSUME ShapeInv, NEW next, NEW path, Walk(next, path),
         NEW i \in DOMAIN query.with[path[1].select],
         NEW deeper, deeper = Deeper(path, query.with[path[1].select][i], i)
  PROVE  /\ Walk(next, deeper)
         /\ Len(deeper) = Len(path) + 1
         /\ deeper[1].select = query.with[path[1].select][i] /\ deeper[1].next = 1
         /\ deeper[2].select = path[1].select /\ deeper[2].next = i + 1
         /\ \A k \in 3 .. Len(path) + 1 : deeper[k] = path[k - 1]
<1> DEFINE n == Len(path)
           s == path[1].select
           c == query.with[s][i]
           one == Entered(c)
           two == [path[1] EXCEPT !.next = i + 1]
           new == <<one, two>>
           rest == Tail(path)
<1>0. deeper = new \o rest
  BY DEF Deeper
<1>1. path \in Seq(Frame) /\ path # <<>> /\ n \in Nat \ {0} /\ DOMAIN path = 1 .. n
  BY PathFacts DEF Walk
<1>2. path[1] \in Frame /\ s \in Select
  BY <1>1, PathFacts
<1>3. query.with[s] \in Seq(Select)
  BY <1>2, QueryFacts DEF ShapeInv
<1>4. i \in 1 .. Len(query.with[s]) /\ i \in Nat /\ c \in Select /\ c \in Range(query.with[s])
  BY <1>3, LenProperties, ElementOfSeq DEF Range
<1>5. one \in Frame /\ one.select = c /\ one.next = 1
  BY <1>4, EnteredPath DEF Entered
<1>6. two \in Frame /\ two.select = s /\ two.next - 1 = i /\ two.next = i + 1
  BY <1>2, <1>4 DEF Frame
<1>7. rest \in Seq(Frame) /\ Len(rest) = n - 1 /\ \A k \in 1 .. Len(rest) : rest[k] = path[k + 1]
  BY <1>1, HeadTailProperties
<1> HIDE DEF one, two, rest, c, s
<1>8. new \in Seq(Frame) /\ Len(new) = 2 /\ new[1] = one /\ new[2] = two
  BY <1>5, <1>6
<1> HIDE DEF new, n
<1>9. /\ deeper \in Seq(Frame) /\ Len(deeper) = n + 1
      /\ \A k \in 1 .. n + 1 : deeper[k] = IF k <= 2 THEN new[k] ELSE rest[k - 2]
  <2>1. /\ new \o rest \in Seq(Frame) /\ Len(new \o rest) = Len(new) + Len(rest)
        /\ \A k \in 1 .. Len(new) + Len(rest) : (new \o rest)[k] = IF k <= Len(new) THEN new[k] ELSE rest[k - Len(new)]
    BY <1>7, <1>8, ConcatProperties
  <2>2. Len(new) + Len(rest) = n + 1
    BY <1>1, <1>7, <1>8
  <2> QED BY <1>0, <1>8, <2>1, <2>2
<1>10. /\ deeper[1] = one /\ deeper[2] = two
       /\ \A k \in 3 .. n + 1 : deeper[k] = path[k - 1]
  <2>1. deeper[1] = one /\ deeper[2] = two
    BY <1>1, <1>8, <1>9
  <2>2. ASSUME NEW k \in 3 .. n + 1
        PROVE  deeper[k] = path[k - 1]
    <3>1. k \in 1 .. n + 1 /\ ~(k <= 2) /\ k - 2 \in 1 .. n - 1 /\ (k - 2) + 1 = k - 1
      BY <1>1
    <3> QED BY <1>7, <1>9, <3>1
  <2> QED BY <2>1, <2>2
<1>11. DOMAIN deeper = 1 .. n + 1
  BY <1>9, LenProperties
<1>12. deeper # <<>>
  BY <1>1, <1>9
<1>13. /\ next - 1 \in DOMAIN query.top
       /\ path[n].select = query.top[next - 1]
       /\ \A k \in 1 .. n : k < n =>
            /\ path[k + 1].next - 1 \in DOMAIN query.with[path[k + 1].select]
            /\ path[k].select = query.with[path[k + 1].select][path[k + 1].next - 1]
       /\ \A k, j \in 1 .. n : j <= k => path[j].select \in Below(Within, path[k].select)
  BY <1>1 DEF Walk, n
<1>14. /\ deeper[1].select = c
       /\ \A k \in 2 .. n + 1 : k - 1 \in 1 .. n /\ deeper[k].select = path[k - 1].select
  <2>1. deeper[2].select = path[1].select
    BY <1>6, <1>10 DEF s
  <2>2. ASSUME NEW k \in 2 .. n + 1
        PROVE  k - 1 \in 1 .. n /\ deeper[k].select = path[k - 1].select
    <3>1. k - 1 \in 1 .. n /\ (k = 2 \/ k \in 3 .. n + 1)
      BY <1>1
    <3> QED BY <1>10, <2>1, <3>1
  <2> QED BY <1>5, <1>10, <2>2
<1>15. deeper[n + 1].select = query.top[next - 1]
  BY <1>1, <1>13, <1>14
<1>16. ASSUME NEW k \in 1 .. n + 1, k < n + 1
       PROVE  /\ deeper[k + 1].next - 1 \in DOMAIN query.with[deeper[k + 1].select]
              /\ deeper[k].select = query.with[deeper[k + 1].select][deeper[k + 1].next - 1]
  <2>1. CASE k = 1
    <3>1. deeper[k + 1] = two /\ deeper[k].select = c
      BY <1>10, <1>14, <2>1
    <3>2. two.next - 1 \in DOMAIN query.with[two.select] /\ c = query.with[two.select][two.next - 1]
      BY <1>6 DEF c, s
    <3> QED BY <3>1, <3>2
  <2>2. CASE k # 1
    <3>1. k - 1 \in 1 .. n /\ k - 1 < n /\ k + 1 \in 3 .. n + 1 /\ (k + 1) - 1 = k /\ (k - 1) + 1 = k /\ k \in 2 .. n + 1
      BY <1>1, <1>16, <2>2
    <3>2. deeper[k + 1] = path[k] /\ deeper[k].select = path[k - 1].select
      BY <1>10, <1>14, <3>1
    <3>3. /\ path[k].next - 1 \in DOMAIN query.with[path[k].select]
          /\ path[k - 1].select = query.with[path[k].select][path[k].next - 1]
      BY <1>13, <3>1
    <3> QED BY <3>2, <3>3
  <2> QED BY <2>1, <2>2
<1>17. ASSUME NEW k \in 1 .. n + 1, NEW j \in 1 .. n + 1, j <= k
       PROVE  deeper[j].select \in Below(Within, deeper[k].select)
  <2>1. CASE k = 1
    <3>1. j = 1
      BY <1>1, <1>17, <2>1
    <3>2. c \in Below(Within, c)
      BY <1>4, WithinFacts, BelowFacts
    <3> QED BY <1>14, <2>1, <3>1, <3>2
  <2>2. CASE k # 1 /\ j # 1
    <3>1. k \in 2 .. n + 1 /\ j \in 2 .. n + 1 /\ j - 1 <= k - 1
      BY <1>1, <1>17, <2>2
    <3> QED BY <1>13, <1>14, <3>1
  <2>3. CASE k # 1 /\ j = 1
    <3>1. k \in 2 .. n + 1 /\ 1 \in 1 .. n /\ 1 <= k - 1
      BY <1>1, <2>3
    <3>2. s \in Below(Within, deeper[k].select)
      BY <1>13, <1>14, <3>1 DEF s
    <3>3. deeper[k].select \in Select
      BY <1>14, <3>1, PathFacts DEF n
    <3>4. c \in Within[s]
      BY <1>2, <1>4, WithinFacts
    <3> QED BY <1>14, <2>3, <3>2, <3>3, <3>4, WithinFacts, BelowFacts
  <2> QED BY <2>1, <2>2, <2>3
<1>18. Walk(next, deeper)
  BY <1>9, <1>11, <1>12, <1>13, <1>15, <1>16, <1>17 DEF Walk
<1>19. deeper[1].select = c /\ deeper[1].next = 1 /\ deeper[2].select = s /\ deeper[2].next = i + 1
  BY <1>5, <1>6, <1>10
<1> QED BY <1>9, <1>10, <1>18, <1>19 DEF c, s, n

-----------------------------------------------------------------------------
\* What a step changes of the solutions that fit.

LEMMA SameNames ==
  ASSUME UNCHANGED query, NEW s
  PROVE  /\ Names(s)' = Names(s) /\ OneColumn(s)' = OneColumn(s)
         /\ \A S : TypesIn(s, S)' = TypesIn(s, S)
BY DEF Names, NamesOf, OneColumn, TypesIn

LEMMA SameAliases ==
  ASSUME UNCHANGED query, NEW t, NEW sols, NEW s, NEW v
  PROVE  AliasTypes(t, sols, s, v)' = AliasTypes(t, sols, s, v)
BY DEF AliasTypes, ColumnTypes, TermType

LEMMA ColumnTypesBySolution ==
  ASSUME NEW t, NEW sols, NEW s, NEW i, NEW type
  PROVE  type \in ColumnTypes(t, sols, s, i) <=>
           \E c \in t.subquery[s] : \E g \in sols[c] : type = TermType(query.columns[c][i], g)
<1> DEFINE given(c) == {TermType(query.columns[c][i], g) : g \in sols[c]}
<1>1. \A c : type \in given(c) <=> \E g \in sols[c] : type = TermType(query.columns[c][i], g)
  OBVIOUS
<1>2. ColumnTypes(t, sols, s, i) = UNION {given(c) : c \in t.subquery[s]}
  BY DEF ColumnTypes
<1> HIDE DEF given
<1> QED BY <1>1, <1>2

LEMMA AliasTypesByColumn ==
  ASSUME NEW t, NEW sols, NEW s, NEW v, NEW type
  PROVE  type \in AliasTypes(t, sols, s, v) <=>
           \E i \in DOMAIN query.aliases[s] : query.aliases[s][i] = v /\ type \in ColumnTypes(t, sols, s, i)
<1> DEFINE places == {j \in DOMAIN query.aliases[s] : query.aliases[s][j] = v}
<1>1. AliasTypes(t, sols, s, v) = UNION {ColumnTypes(t, sols, s, i) : i \in places}
  BY DEF AliasTypes
<1>2. \A i : i \in places <=> i \in DOMAIN query.aliases[s] /\ query.aliases[s][i] = v
  OBVIOUS
<1> HIDE DEF places
<1> QED BY <1>1, <1>2

LEMMA SameColumns ==
  ASSUME NEW t, NEW u, NEW sols, NEW others, NEW s, t.subquery[s] = u.subquery[s],
         \A c \in t.subquery[s] : sols[c] = others[c]
  PROVE  \A v : AliasTypes(t, sols, s, v) = AliasTypes(u, others, s, v)
<1>1. \A i, type : type \in ColumnTypes(t, sols, s, i) <=> type \in ColumnTypes(u, others, s, i)
  BY ColumnTypesBySolution
<1>2. \A v, type : type \in AliasTypes(t, sols, s, v) <=> type \in AliasTypes(u, others, s, v)
  BY <1>1, AliasTypesByColumn
<1> QED BY <1>2

LEMMA FitsNext ==
  ASSUME UNCHANGED query, NEW s, NEW uid, tree'.where[s] = tree.where[s], NEW f
  PROVE  Fits(s, f, uid)' <=>
           /\ OneColumn(s) =>
                \A v \in Range(query.aliases[s]) : f[v] \in AliasTypes(tree', solutions', s, v)
           /\ FitsWhere(s, f, uid)
<1>1. PICK t, sols : t = tree' /\ sols = solutions'
  OBVIOUS
<1>2. \A v : AliasTypes(t, sols, s, v)' = AliasTypes(t, sols, s, v)
  BY SameAliases
<1>3. \A v : AliasTypes(tree, solutions, s, v)' = AliasTypes(t, sols, s, v)'
  BY <1>1
<1>4. \A v : AliasTypes(tree, solutions, s, v)' = AliasTypes(tree', solutions', s, v)
  BY <1>1, <1>2, <1>3
<1>5. OneColumn(s)' = OneColumn(s) /\ SelectedVars(s)' = SelectedVars(s)
  BY DEF OneColumn, SelectedVars
<1> QED BY <1>4, <1>5 DEF Fits, FitsWhere

LEMMA SameFits ==
  ASSUME UNCHANGED query, NEW s, NEW uid, tree'.where[s] = tree.where[s],
         \A v : AliasTypes(tree', solutions', s, v) = AliasTypes(tree, solutions, s, v)
  PROVE  \A f : Fits(s, f, uid)' <=> Fits(s, f, uid)
BY FitsNext, FitsByParts

\* Another SELECT stays settled, if no SELECT of its subquery is solved anew.
LEMMA NarrowKeepsSettled ==
  ASSUME ShapeInv, NEW s \in Select, NEW r \in Resolver, NEW found \in SUBSET [Names(s) -> Type],
         SetPossibleTypes(s, found, r), UNCHANGED query, NEW uid,
         NEW x \in Select \ {s}, s \notin tree.subquery[x] \/ r = "itr_analyser",
         x \in tree.subquery[s] => x \in tree'.subquery[s]
  PROVE  /\ Settled(x, uid) => Settled(x, uid)'
         /\ (x \notin tree.subquery[s] /\ Whole(x, uid)) => Whole(x, uid)'
<1>1. /\ tree'.where = tree.where /\ tree'.subquery[x] = tree.subquery[x]
      /\ \A c : c \in tree'.subquery[s] <=> c \in tree.subquery[s] /\ Kept(s, found, c) # {}
      /\ \A c \in Select : solutions'[c] =
           IF c \in tree'.subquery[s] THEN Kept(s, found, c)
           ELSE IF c = s /\ KeepsSolutions(r) THEN found ELSE solutions[c]
      /\ types'["possibletypes"][x] =
           IF x \in tree'.subquery[s] THEN TypesIn(x, Kept(s, found, x)) ELSE types["possibletypes"][x]
  BY NarrowedFacts
<1>2. ASSUME NEW c \in tree.subquery[x]
      PROVE  c \in Select /\ solutions'[c] = solutions[c]
  <2>1. c \in Select /\ c \notin tree.subquery[s]
    BY WithinFacts
  <2>2. c = s => ~KeepsSolutions(r)
    BY DEF KeepsSolutions, Key
  <2> QED BY <1>1, <2>1, <2>2
<1>3. \A v : AliasTypes(tree', solutions', x, v) = AliasTypes(tree, solutions, x, v)
  <2>1. tree'.subquery[x] = tree.subquery[x] /\ \A c \in tree'.subquery[x] : solutions'[c] = solutions[c]
    BY <1>1, <1>2
  <2> QED BY <2>1, SameColumns
<1>4. \A f : Fits(x, f, uid)' <=> Fits(x, f, uid)
  BY <1>1, <1>3, SameFits
<1>5. solutions'[x] = IF x \in tree'.subquery[s] THEN Kept(s, found, x) ELSE solutions[x]
  BY <1>1
<1>7. Kept(s, found, x) \subseteq solutions[x]
  BY DEF Kept
<1>8. /\ Names(x)' = Names(x) /\ OneColumn(x)' = OneColumn(x)
      /\ \A S : TypesIn(x, S)' = TypesIn(x, S)
  BY SameNames
<1>9. ASSUME Settled(x, uid)
      PROVE  Settled(x, uid)'
  <2>1. /\ solutions[x] # {} /\ types["possibletypes"][x] = TypesIn(x, solutions[x])
        /\ \A f \in solutions[x] : Fits(x, f, uid)
        /\ OneColumn(x) =>
             \A c \in tree.subquery[x] : \A g \in solutions[c] : \A i \in DOMAIN query.aliases[x] :
               \E f \in [Names(x) -> Type] :
                 Fits(x, f, uid) /\ f[query.aliases[x][i]] = TermType(query.columns[c][i], g)
    BY <1>9 DEF Settled
  <2>2. solutions'[x] # {} /\ types'["possibletypes"][x] = TypesIn(x, solutions'[x])
    BY <1>1, <1>5, <2>1
  <2>3. \A f \in solutions'[x] : Fits(x, f, uid)'
    BY <1>4, <1>5, <1>7, <2>1
  <2>4. OneColumn(x) =>
          \A c \in tree'.subquery[x] : \A g \in solutions'[c] : \A i \in DOMAIN query.aliases[x] :
            \E f \in [Names(x) -> Type] :
              Fits(x, f, uid)' /\ f[query.aliases[x][i]] = TermType(query.columns[c][i], g)
    BY <1>1, <1>2, <1>4, <2>1
  <2> QED BY <1>8, <2>2, <2>3, <2>4 DEF Settled
<1>10. ASSUME x \notin tree.subquery[s], Whole(x, uid)
       PROVE  Whole(x, uid)'
  <2>1. solutions'[x] = solutions[x]
    BY <1>1, <1>5, <1>10
  <2>2. OneColumn(x) => solutions[x] = {f \in [Names(x) -> Type] : Fits(x, f, uid)}
    BY <1>10 DEF Whole
  <2>3. {f \in [Names(x) -> Type] : Fits(x, f, uid)'} = {f \in [Names(x) -> Type] : Fits(x, f, uid)}
    BY <1>4
  <2> QED BY <1>8, <2>1, <2>2, <2>3 DEF Whole
<1> QED BY <1>9, <1>10

LEMMA KeptByAlias ==
  ASSUME NEW s, NEW found, NEW c, NEW g
  PROVE  g \in Kept(s, found, c) <=>
           /\ g \in solutions[c]
           /\ \A i \in DOMAIN query.aliases[s] :
                \E f \in found : f[query.aliases[s][i]] = TermType(query.columns[c][i], g)
<1> DEFINE given(i) == {f[query.aliases[s][i]] : f \in found}
<1>1. \A i, type : type \in given(i) <=> \E f \in found : f[query.aliases[s][i]] = type
  OBVIOUS
<1>2. Kept(s, found, c) =
        {h \in solutions[c] : \A i \in DOMAIN query.aliases[s] : TermType(query.columns[c][i], h) \in given(i)}
  BY DEF Kept
<1> HIDE DEF given
<1> QED BY <1>1, <1>2

LEMMA OneAlias ==
  ASSUME ShapeInv, NEW s \in Select, OneColumn(s),
         NEW i \in DOMAIN query.aliases[s], NEW j \in DOMAIN query.aliases[s]
  PROVE  i = j
<1>1. query.aliases[s] \in Seq(Var)
  BY QueryFacts DEF ShapeInv
<1>2. Len(query.aliases[s]) \in Nat /\ DOMAIN query.aliases[s] = 1 .. Len(query.aliases[s])
  BY <1>1, LenProperties
<1>3. Len(query.aliases[s]) <= 1
  BY DEF OneColumn
<1> QED BY <1>2, <1>3

LEMMA NotInItsSubquery ==
  ASSUME ShapeInv, NEW s \in Select
  PROVE  s \notin Within[s] /\ s \notin tree.subquery[s]
BY WithinFacts, BelowFacts

\* What compute_solutions finds settles a SELECT.
LEMMA NarrowSettles ==
  ASSUME ShapeInv, NEW s \in Select, NEW uid \in BOOLEAN, NEW found,
         found = PythonSolutions(s, Problem(s, "analyser", uid)), found # {},
         SetPossibleTypes(s, found, "analyser"), UNCHANGED query
  PROVE  Settled(s, uid)' /\ Whole(s, uid)'
<1>1. found \in SUBSET [Names(s) -> Type]
  BY DEF PythonSolutions, Assignments
<1>2. "analyser" \in Resolver /\ KeepsSolutions("analyser")
  BY DEF Resolver, KeepsSolutions, Key
<1>3. /\ tree'.where = tree.where
      /\ \A c : c \in tree'.subquery[s] <=> c \in tree.subquery[s] /\ Kept(s, found, c) # {}
      /\ \A c \in Select : solutions'[c] =
           IF c \in tree'.subquery[s] THEN Kept(s, found, c)
           ELSE IF c = s /\ KeepsSolutions("analyser") THEN found ELSE solutions[c]
      /\ \A c \in Select : types'["possibletypes"][c] =
           IF c \in tree'.subquery[s] THEN TypesIn(c, Kept(s, found, c))
           ELSE IF c = s /\ KeepsSolutions("analyser") THEN TypesIn(s, found) ELSE types["possibletypes"][c]
  BY <1>1, <1>2, NarrowedFacts
<1>4. s \notin tree'.subquery[s]
  BY <1>3, NotInItsSubquery
<1>5. solutions'[s] = found /\ types'["possibletypes"][s] = TypesIn(s, found)
  BY <1>2, <1>3, <1>4
<1>6. \A c \in tree'.subquery[s] : c \in tree.subquery[s] /\ solutions'[c] = Kept(s, found, c)
  BY <1>3, WithinFacts
<1>7. ASSUME OneColumn(s), NEW f \in found, NEW v \in Range(query.aliases[s])
      PROVE  f[v] \in AliasTypes(tree', solutions', s, v)
  <2>1. f[v] \in AliasTypes(tree, solutions, s, v)
    BY FoundFits
  <2>2. PICK i \in DOMAIN query.aliases[s] :
          query.aliases[s][i] = v /\ f[v] \in ColumnTypes(tree, solutions, s, i)
    BY <2>1, AliasTypesByColumn
  <2>3. PICK c \in tree.subquery[s] : \E g \in solutions[c] : f[v] = TermType(query.columns[c][i], g)
    BY <2>2, ColumnTypesBySolution
  <2> PICK g \in solutions[c] : f[v] = TermType(query.columns[c][i], g)
    BY <2>3
  <2>4. ASSUME NEW j \in DOMAIN query.aliases[s]
        PROVE  f[query.aliases[s][j]] = TermType(query.columns[c][j], g)
    BY <1>7, <2>2, <2>3, OneAlias
  <2>5. g \in Kept(s, found, c)
    BY <2>4, KeptByAlias
  <2>6. c \in tree'.subquery[s] /\ g \in solutions'[c]
    BY <1>3, <1>6, <2>5
  <2>7. f[v] \in ColumnTypes(tree', solutions', s, i)
    BY <2>3, <2>6, ColumnTypesBySolution
  <2> QED BY <2>2, <2>7, AliasTypesByColumn
<1>8. ASSUME NEW v, NEW type \in AliasTypes(tree', solutions', s, v)
      PROVE  type \in AliasTypes(tree, solutions, s, v)
  <2>1. PICK i \in DOMAIN query.aliases[s] :
          query.aliases[s][i] = v /\ type \in ColumnTypes(tree', solutions', s, i)
    BY AliasTypesByColumn
  <2>2. PICK c \in tree'.subquery[s] : \E g \in solutions'[c] : type = TermType(query.columns[c][i], g)
    BY <2>1, ColumnTypesBySolution
  <2> PICK g \in solutions'[c] : type = TermType(query.columns[c][i], g)
    BY <2>2
  <2>3. c \in tree.subquery[s] /\ g \in solutions[c]
    BY <1>6, <2>2, KeptByAlias
  <2>4. type \in ColumnTypes(tree, solutions, s, i)
    BY <2>2, <2>3, ColumnTypesBySolution
  <2> QED BY <2>1, <2>4, AliasTypesByColumn
<1>9. \A f \in found : Fits(s, f, uid)'
  BY <1>3, <1>7, FoundFits, FitsByParts, FitsNext
<1>10. ASSUME OneColumn(s), NEW f \in [Names(s) -> Type], Fits(s, f, uid)'
       PROVE  f \in found
  <2>1. /\ \A v \in Range(query.aliases[s]) : f[v] \in AliasTypes(tree', solutions', s, v)
        /\ FitsWhere(s, f, uid)
    BY <1>3, <1>10, FitsNext
  <2>2. Fits(s, f, uid)
    BY <1>8, <2>1, FitsByParts
  <2> QED BY <1>2, <1>10, <2>2, FitsIsFound
<1>11. ASSUME NEW c \in tree'.subquery[s], NEW g \in solutions'[c], NEW i \in DOMAIN query.aliases[s]
       PROVE  \E f \in [Names(s) -> Type] :
                Fits(s, f, uid)' /\ f[query.aliases[s][i]] = TermType(query.columns[c][i], g)
  <2>1. PICK f \in found : f[query.aliases[s][i]] = TermType(query.columns[c][i], g)
    BY <1>6, <1>11, KeptByAlias
  <2> QED BY <1>1, <1>9, <2>1
<1>12. /\ Names(s)' = Names(s) /\ OneColumn(s)' = OneColumn(s)
       /\ \A S : TypesIn(s, S)' = TypesIn(s, S)
  BY SameNames
<1>13. Settled(s, uid)'
  BY <1>5, <1>9, <1>11, <1>12 DEF Settled
<1>14. Whole(s, uid)'
  <2>1. OneColumn(s) => found = {f \in [Names(s) -> Type] : Fits(s, f, uid)'}
    BY <1>1, <1>9, <1>10
  <2> QED BY <1>5, <1>12, <2>1 DEF Whole
<1> QED BY <1>13, <1>14

\* A SELECT without a name has no subquery, and whatever it says fits.
LEMMA NoNames ==
  ASSUME ShapeInv, NEW s \in Select, Names(s) = {}, NEW uid
  PROVE  /\ query.with[s] = <<>> /\ tree.subquery[s] = {}
         /\ \A f : FitsWhere(s, f, uid)
<1>1. query.with[s] \in Seq(Select) /\ query.aliases[s] \in Seq(Var)
  BY QueryFacts DEF ShapeInv
<1>2. query.aliases[s] = <<>>
  <2>1. Range(query.aliases[s]) = {}
    BY DEF Names, NamesOf
  <2>2. Len(query.aliases[s]) \in Nat /\ DOMAIN query.aliases[s] = 1 .. Len(query.aliases[s])
    BY <1>1, LenProperties
  <2>3. 1 \notin DOMAIN query.aliases[s]
    BY <2>1 DEF Range
  <2>4. Len(query.aliases[s]) = 0
    BY <2>2, <2>3
  <2> QED BY <1>1, <2>4, EmptySeq
<1>3. query.with[s] = <<>>
  BY <1>2, WithinFacts
<1>4. Range(query.with[s]) = {}
  BY <1>3 DEF Range
<1>5. tree.subquery[s] = {}
  BY <1>4, QueryFacts DEF ShapeInv
<1>6. ASSUME NEW f, NEW rel \in tree.where[s]
      PROVE  Allows(rel, f, uid)
  <2>1. /\ rel \in Relation /\ TermsOf(rel) \cap Var = {}
        /\ rel.lhs \in Var \/ (rel.lhs \in Type /\ rel.rtype \notin Uid)
    BY QueryFacts DEF ShapeInv
  <2>2. rel.lhs \in TermsOf(rel)
    BY DEF TermsOf
  <2>3. rel.lhs \notin Var /\ rel.rtype \notin Uid
    BY <2>1, <2>2
  <2>4. ~IsTypeRestriction(rel)
    BY <2>1, <2>3, TypeRestrictionShape
  <2> QED BY <2>1, <2>3, <2>4 DEF Allows
<1>7. SelectedVars(s) = {}
  BY QueryFacts DEF ShapeInv
<1> QED BY <1>3, <1>5, <1>6, <1>7 DEF FitsWhere

LEMMA NoTypesFacts ==
  ASSUME ShapeInv, NEW s \in Select, Names(s) = {}, SetNoTypes(s), UNCHANGED query
  PROVE  /\ UNCHANGED <<tree, types>>
         /\ \A c \in Select : solutions'[c] = IF c = s THEN [Names(s) -> Type] ELSE solutions[c]
         /\ solutions[s] # {} => UNCHANGED solutions
<1>1. UNCHANGED <<tree, types>> /\ solutions' = [solutions EXCEPT ![s] = [Names(s) -> Type]]
  BY DEF SetNoTypes
<1>2. \A c \in Select : solutions'[c] = IF c = s THEN [Names(s) -> Type] ELSE solutions[c]
  BY <1>1 DEF ShapeInv, Domains
<1>3. ASSUME solutions[s] # {}
      PROVE  solutions[s] = [Names(s) -> Type]
  <2>1. solutions[s] \subseteq [Names(s) -> Type]
    BY DEF ShapeInv, TypeOK
  <2>2. \A f, g \in [Names(s) -> Type] : f = g
    OBVIOUS
  <2> QED BY <1>3, <2>1, <2>2
<1>4. solutions[s] # {} => solutions' = solutions
  BY <1>1, <1>3 DEF ShapeInv, Domains
<1> QED BY <1>1, <1>2, <1>4

LEMMA NoTypesSettles ==
  ASSUME ShapeInv, NEW s \in Select, Names(s) = {}, SetNoTypes(s), UNCHANGED query, NEW uid
  PROVE  Settled(s, uid)' /\ Whole(s, uid)'
<1>1. /\ UNCHANGED <<tree, types>> /\ solutions'[s] = [Names(s) -> Type]
  BY NoTypesFacts
<1>2. tree.subquery[s] = {} /\ \A f : FitsWhere(s, f, uid)
  BY NoNames
<1>3. Range(query.aliases[s]) = {}
  BY DEF Names, NamesOf
<1>4. \A f : Fits(s, f, uid)'
  BY <1>1, <1>2, <1>3, FitsNext
<1>5. /\ Names(s)' = Names(s) /\ OneColumn(s)' = OneColumn(s)
      /\ \A S : TypesIn(s, S)' = TypesIn(s, S)
  BY SameNames
<1>6. solutions'[s] # {}
  <2>1. [v \in Names(s) |-> {}] \in [Names(s) -> Type]
    OBVIOUS
  <2> QED BY <1>1, <2>1
<1>7. types["possibletypes"][s] = TypesIn(s, solutions'[s])
  <2>1. "analyser" \in Resolver /\ Key("analyser") = "possibletypes"
    BY DEF Resolver, Key
  <2>2. types["possibletypes"][s] \in [Names(s) -> SUBSET Type]
    BY <2>1 DEF ShapeInv, TypeOK
  <2>3. TypesIn(s, solutions'[s]) = [v \in Names(s) |-> {f[v] : f \in solutions'[s]}]
    BY DEF TypesIn
  <2> QED BY <2>2, <2>3
<1>8. Settled(s, uid)'
  BY <1>1, <1>2, <1>4, <1>5, <1>6, <1>7 DEF Settled
<1>9. Whole(s, uid)'
  BY <1>1, <1>4, <1>5 DEF Whole
<1> QED BY <1>8, <1>9

LEMMA NoTypesKeepsSettled ==
  ASSUME ShapeInv, NEW s \in Select, Names(s) = {}, SetNoTypes(s), UNCHANGED query, NEW uid,
         NEW x \in Select \ {s}, s \notin tree.subquery[x]
  PROVE  /\ Settled(x, uid) => Settled(x, uid)'
         /\ Whole(x, uid) => Whole(x, uid)'
<1>1. /\ UNCHANGED <<tree, types>> /\ solutions'[x] = solutions[x]
      /\ \A c \in tree.subquery[x] : solutions'[c] = solutions[c]
  BY NoTypesFacts, WithinFacts
<1>2. \A v : AliasTypes(tree', solutions', x, v) = AliasTypes(tree, solutions, x, v)
  <2>1. tree'.subquery[x] = tree.subquery[x] /\ \A c \in tree'.subquery[x] : solutions'[c] = solutions[c]
    BY <1>1
  <2> QED BY <2>1, SameColumns
<1>3. \A f : Fits(x, f, uid)' <=> Fits(x, f, uid)
  BY <1>1, <1>2, SameFits
<1>4. /\ Names(x)' = Names(x) /\ OneColumn(x)' = OneColumn(x)
      /\ \A S : TypesIn(x, S)' = TypesIn(x, S)
  BY SameNames
<1>5. Settled(x, uid) => Settled(x, uid)'
  BY <1>1, <1>3, <1>4 DEF Settled
<1>6. Whole(x, uid) => Whole(x, uid)'
  BY <1>1, <1>3, <1>4 DEF Whole
<1> QED BY <1>5, <1>6

-----------------------------------------------------------------------------
\* What stays in the query.

LEMMA BelowParent ==
  ASSUME NEW T \in [Select -> SUBSET Select], NEW s \in Select, NEW t \in Below(T, s), t # s
  PROVE  \E u \in Below(T, s) : t \in T[u]
<1> DEFINE S == Below(T, s) \ {t}
<1>1. S \in SUBSET Select /\ s \in S /\ t \notin S
  BY BelowFacts
<1>2. ~Closed(T, S)
  BY <1>1 DEF Below
<1>3. PICK u \in S : ~(T[u] \subseteq S)
  BY <1>2 DEF Closed
<1>4. T[u] \subseteq Below(T, s)
  BY <1>3, BelowFacts
<1> QED BY <1>3, <1>4

\* One parent only: what is still below c stays in every subquery that it was parsed in.
LEMMA StaysIn ==
  ASSUME ShapeInv, NEW U \in [Select -> SUBSET Select], \A y \in Select : U[y] \subseteq Within[y],
         NEW c \in Select, NEW s \in Select, c \in Within[s] => c \in U[s],
         NEW x \in Below(U, c), x \in Within[s]
  PROVE  x \in U[s]
<1>1. CASE x = c
  BY <1>1
<1>2. CASE x # c
  <2>1. PICK y \in Below(U, c) : x \in U[y]
    BY <1>2, BelowParent
  <2>2. y \in Select
    BY BelowFacts
  <2> QED BY <2>1, <2>2, WithinFacts
<1> QED BY <1>1, <1>2

LEMMA InQueryFacts ==
  ASSUME ShapeInv
  PROVE  /\ InQuery \subseteq Select
         /\ \A i \in DOMAIN query.top :
              query.top[i] \in Select /\ query.top[i] \in Range(query.top) /\ query.top[i] \in InQuery
         /\ \A s \in InQuery : tree.subquery[s] \subseteq InQuery /\ Below(tree.subquery, s) \subseteq InQuery
         /\ \A s \in InQuery : \E i \in DOMAIN query.top : s \in Below(tree.subquery, query.top[i])
<1>1. query.top \in Seq(Select)
  BY QueryFacts DEF ShapeInv
<1>2. \A i \in DOMAIN query.top : query.top[i] \in Select /\ query.top[i] \in Range(query.top)
  BY <1>1, LenProperties, ElementOfSeq DEF Range
<1>3. \A t \in Range(query.top) : \E i \in DOMAIN query.top : t = query.top[i]
  BY DEF Range
<1>4. \A s : s \in InQuery <=> \E t \in Range(query.top) : s \in Below(tree.subquery, t)
  BY DEF InQuery
<1>5. tree.subquery \in [Select -> SUBSET Select]
  BY WithinFacts
<1>6. \A i \in DOMAIN query.top :
        /\ query.top[i] \in Below(tree.subquery, query.top[i])
        /\ Below(tree.subquery, query.top[i]) \subseteq Select
        /\ \A s \in Below(tree.subquery, query.top[i]) :
             /\ tree.subquery[s] \subseteq Below(tree.subquery, query.top[i])
             /\ Below(tree.subquery, s) \subseteq Below(tree.subquery, query.top[i])
  BY <1>2, <1>5, BelowFacts
<1>7. \A s : s \in InQuery <=> \E i \in DOMAIN query.top : s \in Below(tree.subquery, query.top[i])
  BY <1>2, <1>3, <1>4
<1>8. \A s \in InQuery : tree.subquery[s] \subseteq InQuery /\ Below(tree.subquery, s) \subseteq InQuery
  BY <1>6, <1>7
<1>9. InQuery \subseteq Select /\ \A i \in DOMAIN query.top : query.top[i] \in InQuery
  BY <1>6, <1>7
<1> QED BY <1>2, <1>7, <1>8, <1>9

\* A SELECT of the root is in no subquery.
LEMMA TopIsOut ==
  ASSUME ShapeInv, NEW s \in Select, NEW j \in DOMAIN query.top, s \in Below(Within, query.top[j]),
         NEW i \in DOMAIN query.top
  PROVE  /\ query.top[i] \notin Within[s]
         /\ i # j => s \notin Below(Within, query.top[i])
<1>1. query.top[i] \in Select /\ query.top[j] \in Select
  BY InQueryFacts
<1>2. i # j => s \notin Below(Within, query.top[i])
  BY WithinFacts DEF Apart
<1>3. ASSUME query.top[i] \in Within[s]
      PROVE  FALSE
  <2>1. query.top[i] \in Below(Within, query.top[j]) /\ query.top[i] \in Below(Within, query.top[i])
    BY <1>1, <1>3, WithinFacts, BelowFacts
  <2>2. i = j
    BY <2>1, WithinFacts DEF Apart
  <2>3. s \notin Below(Within, query.top[i])
    BY <1>3, WithinFacts
  <2> QED BY <2>2, <2>3
<1> QED BY <1>2, <1>3

LEMMA BelowWithin ==
  ASSUME ShapeInv, NEW s \in Select
  PROVE  Below(tree.subquery, s) \subseteq Below(Within, s)
BY WithinFacts, BelowMonotone

\* What is still in the query was in it, and in the subqueries that it was in.
LEMMA InQueryNext ==
  ASSUME ShapeInv, UNCHANGED query, tree'.subquery \in [Select -> SUBSET Select],
         \A c \in Select : tree'.subquery[c] \subseteq tree.subquery[c]
  PROVE  /\ \A x \in InQuery' : x \in InQuery
         /\ \A c \in InQuery' : tree'.subquery[c] \subseteq InQuery' /\ Below(tree'.subquery, c) \subseteq InQuery'
         /\ \A i \in DOMAIN query.top : query.top[i] \in InQuery'
         /\ \A s \in InQuery : \A x \in InQuery' : x \in Within[s] => x \in tree'.subquery[s]
         /\ \A s \in Select : Below(tree'.subquery, s) \subseteq Below(tree.subquery, s)
<1> PICK U \in [Select -> SUBSET Select] : U = tree'.subquery
  OBVIOUS
<1>1. \A c \in Select : U[c] \subseteq tree.subquery[c] /\ U[c] \subseteq Within[c]
  BY WithinFacts
<1>2. \A s \in Select : Below(U, s) \subseteq Below(tree.subquery, s)
  BY <1>1, WithinFacts, BelowMonotone
<1>3. \A x : x \in InQuery' <=> \E t \in Range(query.top) : x \in Below(U, t)
  <2>1. Range(query.top)' = Range(query.top)
    BY DEF Range
  <2> QED BY <2>1 DEF InQuery
<1>4. \A t \in Range(query.top) : \E i \in DOMAIN query.top : t = query.top[i]
  BY DEF Range
<1>5. \A i \in DOMAIN query.top : query.top[i] \in Select /\ query.top[i] \in InQuery
  BY InQueryFacts
<1>6. \A x \in InQuery' : x \in InQuery
  BY <1>2, <1>3, <1>4, <1>5, InQueryFacts
<1>7. ASSUME NEW s \in InQuery, NEW x \in InQuery', x \in Within[s]
      PROVE  x \in U[s]
  <2>1. PICK i \in DOMAIN query.top : x \in Below(U, query.top[i])
    BY <1>3, <1>4
  <2>2. PICK j \in DOMAIN query.top : s \in Below(tree.subquery, query.top[j])
    BY InQueryFacts
  <2>3. s \in Select /\ s \in Below(Within, query.top[j])
    BY <1>5, <2>2, InQueryFacts, BelowWithin
  <2>4. query.top[i] \notin Within[s]
    BY <2>3, TopIsOut
  <2> QED BY <1>1, <1>5, <1>7, <2>1, <2>3, <2>4, StaysIn
<1>8. \A t \in Select :
        /\ t \in Below(U, t)
        /\ \A c \in Below(U, t) : U[c] \subseteq Below(U, t) /\ Below(U, c) \subseteq Below(U, t)
  BY BelowFacts
<1>9. \A i \in DOMAIN query.top : query.top[i] \in Range(query.top)
  BY DEF Range
<1>10. \A c \in InQuery' : U[c] \subseteq InQuery' /\ Below(U, c) \subseteq InQuery'
  BY <1>3, <1>4, <1>5, <1>8
<1>11. \A i \in DOMAIN query.top : query.top[i] \in InQuery'
  BY <1>3, <1>5, <1>8, <1>9
<1> QED BY <1>2, <1>6, <1>7, <1>10, <1>11

\* The SELECTs around s stay, whatever leaves its subquery.
LEMMA AroundStays ==
  ASSUME ShapeInv, UNCHANGED query, tree'.subquery \in [Select -> SUBSET Select], NEW s \in Select,
         \A c \in Select \ {s} : tree'.subquery[c] = tree.subquery[c],
         NEW t \in InQuery, s \in Below(Within, t)
  PROVE  t \in InQuery'
<1> PICK U \in [Select -> SUBSET Select] : U = tree'.subquery
  OBVIOUS
<1> PICK T \in [Select -> SUBSET Select] : T = tree.subquery
  BY WithinFacts
<1>1. PICK i \in DOMAIN query.top : t \in Below(T, query.top[i])
  BY InQueryFacts
<1>2. t \in Select /\ query.top[i] \in Select /\ query.top[i] \in Range(query.top)
  BY InQueryFacts
<1>3. ASSUME NEW c \in T[s]
      PROVE  t \notin Below(Within, c)
  <2>1. c \in Within[s] /\ c \in Select
    BY WithinFacts
  <2>2. s \notin Below(Within, c)
    BY <2>1, WithinFacts
  <2> QED BY <2>1, <2>2, WithinFacts, BelowFacts
<1>4. \A u \in Select : T[u] \subseteq Within[u]
  BY WithinFacts
<1>5. t \in Below(U, query.top[i])
  BY <1>1, <1>2, <1>3, <1>4, WithinFacts, BelowPruned
<1>6. Range(query.top)' = Range(query.top)
  BY DEF Range
<1> QED BY <1>2, <1>5, <1>6 DEF InQuery

-----------------------------------------------------------------------------
\* compute_all_solutions on a query that compute_solutions has settled.

\* It narrows nothing where a SELECT has at most one alias.
LEMMA ItrChangesNothing ==
  ASSUME ShapeInv, NEW s \in Select, NEW uid \in BOOLEAN, NEW found,
         found = PythonSolutions(s, Problem(s, "itr_analyser", uid)),
         Settled(s, uid), \A c \in tree.subquery[s] : solutions[c] # {}, OneColumn(s),
         SetPossibleTypes(s, found, "itr_analyser"), UNCHANGED query
  PROVE  UNCHANGED <<tree, solutions>> /\ solutions[s] \subseteq found
<1>1. found \in SUBSET [Names(s) -> Type]
  BY DEF PythonSolutions, Assignments
<1>2. "itr_analyser" \in Resolver /\ ~KeepsSolutions("itr_analyser")
  BY DEF Resolver, KeepsSolutions, Key
<1>3. solutions[s] \subseteq [Names(s) -> Type]
  BY DEF ShapeInv, TypeOK
<1>4. \A f \in [Names(s) -> Type] : Fits(s, f, uid) => f \in found
  BY <1>2, FitsIsFound
<1>5. solutions[s] \subseteq found
  BY <1>3, <1>4 DEF Settled
<1>6. ASSUME NEW c \in tree.subquery[s]
      PROVE  Kept(s, found, c) = solutions[c]
  <2>1. ASSUME NEW g \in solutions[c], NEW i \in DOMAIN query.aliases[s]
        PROVE  \E f \in found : f[query.aliases[s][i]] = TermType(query.columns[c][i], g)
    BY <1>4 DEF Settled
  <2>2. \A g : g \in Kept(s, found, c) <=> g \in solutions[c]
    BY <2>1, KeptByAlias
  <2> QED BY <2>2
<1> DEFINE narrowed == {c \in tree.subquery[s] : Kept(s, found, c) # {}}
<1>7. narrowed = tree.subquery[s]
  BY <1>6
<1>8. tree' = [tree EXCEPT !.subquery[s] = narrowed]
  BY DEF SetPossibleTypes
<1> HIDE DEF narrowed
<1>9. tree' = tree
  <2>1. tree' = [tree EXCEPT !.subquery[s] = tree.subquery[s]]
    BY <1>7, <1>8
  <2>2. tree \in Tree
    BY DEF ShapeInv, TypeOK
  <2>3. [tree.subquery EXCEPT ![s] = tree.subquery[s]] = tree.subquery
    BY <2>2 DEF Tree
  <2>4. tree' = [tree EXCEPT !.subquery = tree.subquery]
    BY <2>1, <2>3
  <2> QED BY <2>2, <2>4 DEF Tree
<1>10. \A c \in Select : solutions'[c] =
         IF c \in tree'.subquery[s] THEN Kept(s, found, c)
         ELSE IF c = s /\ KeepsSolutions("itr_analyser") THEN found ELSE solutions[c]
  BY <1>1, <1>2, NarrowedFacts
<1>11. \A c \in Select : solutions'[c] = solutions[c]
  BY <1>2, <1>6, <1>9, <1>10
<1>12. Domains'
  BY <1>1, <1>2, NarrowedFacts
<1>13. solutions' = solutions
  BY <1>11, <1>12 DEF Domains, ShapeInv
<1> QED BY <1>5, <1>9, <1>13

LEMMA ItrKeepsItsSelect ==
  ASSUME ShapeInv, NEW s \in Select, NEW uid \in BOOLEAN, NEW found,
         found = PythonSolutions(s, Problem(s, "itr_analyser", uid)),
         Settled(s, uid), \A c \in tree.subquery[s] : solutions[c] # {},
         SetPossibleTypes(s, found, "itr_analyser"), UNCHANGED query
  PROVE  Settled(s, uid)' /\ (Whole(s, uid) => Whole(s, uid)') /\ Covers(s)'
<1>1. found \in SUBSET [Names(s) -> Type]
  BY DEF PythonSolutions, Assignments
<1>2. "itr_analyser" \in Resolver /\ ~KeepsSolutions("itr_analyser")
  BY DEF Resolver, KeepsSolutions, Key
<1>3. s \notin tree.subquery[s]
  BY NotInItsSubquery
<1>4. /\ tree'.where = tree.where
      /\ solutions'[s] = solutions[s] /\ types'["possibletypes"][s] = types["possibletypes"][s]
      /\ types'["allpossibletypes"][s] = TypesIn(s, found)
  BY <1>1, <1>2, <1>3, NarrowedFacts
<1>5. OneColumn(s) => UNCHANGED <<tree, solutions>> /\ solutions[s] \subseteq found
  BY ItrChangesNothing
<1>6. \A f : Fits(s, f, uid)' <=> Fits(s, f, uid)
  BY <1>4, <1>5, FitsNext, FitsByParts
<1>7. /\ Names(s)' = Names(s) /\ OneColumn(s)' = OneColumn(s)
      /\ \A S : TypesIn(s, S)' = TypesIn(s, S)
  BY SameNames
<1>8. Settled(s, uid)'
  <2>1. /\ solutions[s] # {} /\ types["possibletypes"][s] = TypesIn(s, solutions[s])
        /\ \A f \in solutions[s] : Fits(s, f, uid)
        /\ OneColumn(s) =>
             \A c \in tree.subquery[s] : \A g \in solutions[c] : \A i \in DOMAIN query.aliases[s] :
               \E f \in [Names(s) -> Type] :
                 Fits(s, f, uid) /\ f[query.aliases[s][i]] = TermType(query.columns[c][i], g)
    BY DEF Settled
  <2>2. OneColumn(s) =>
          \A c \in tree'.subquery[s] : \A g \in solutions'[c] : \A i \in DOMAIN query.aliases[s] :
            \E f \in [Names(s) -> Type] :
              Fits(s, f, uid)' /\ f[query.aliases[s][i]] = TermType(query.columns[c][i], g)
    BY <1>5, <1>6, <2>1
  <2> QED BY <1>4, <1>6, <1>7, <2>1, <2>2 DEF Settled
<1>9. Whole(s, uid) => Whole(s, uid)'
  <2>1. {f \in [Names(s) -> Type] : Fits(s, f, uid)'} = {f \in [Names(s) -> Type] : Fits(s, f, uid)}
    BY <1>6
  <2> QED BY <1>4, <1>7, <2>1 DEF Whole
<1>10. Covers(s)'
  <2>1. ASSUME OneColumn(s), NEW v \in Names(s)
        PROVE  TypesIn(s, solutions[s])[v] \subseteq TypesIn(s, found)[v]
    BY <1>5, <2>1 DEF TypesIn
  <2>2. types["possibletypes"][s] = TypesIn(s, solutions[s])
    BY DEF Settled
  <2> QED BY <1>4, <1>7, <2>1, <2>2 DEF Covers
<1> QED BY <1>8, <1>9, <1>10

LEMMA ItrKeepsCovers ==
  ASSUME ShapeInv, NEW s \in Select, NEW uid, NEW found \in SUBSET [Names(s) -> Type],
         SetPossibleTypes(s, found, "itr_analyser"), UNCHANGED query,
         NEW x \in Select \ {s}, Settled(x, uid), Covers(x)
  PROVE  Covers(x)'
<1>1. "itr_analyser" \in Resolver /\ ~KeepsSolutions("itr_analyser")
  BY DEF Resolver, KeepsSolutions, Key
<1>2. /\ types'["possibletypes"][x] =
           IF x \in tree'.subquery[s] THEN TypesIn(x, Kept(s, found, x)) ELSE types["possibletypes"][x]
      /\ types'["allpossibletypes"][x] = types["allpossibletypes"][x]
  BY <1>1, NarrowedFacts
<1>3. \A v \in Names(x) : TypesIn(x, Kept(s, found, x))[v] \subseteq TypesIn(x, solutions[x])[v]
  BY DEF TypesIn, Kept
<1>4. types["possibletypes"][x] = TypesIn(x, solutions[x])
  BY DEF Settled
<1>5. Names(x)' = Names(x) /\ OneColumn(x)' = OneColumn(x)
  BY SameNames
<1> QED BY <1>2, <1>3, <1>4, <1>5 DEF Covers

LEMMA ItrKeepsAll ==
  ASSUME ShapeInv, NEW s \in InQuery, NEW uid \in BOOLEAN, NEW found,
         found = PythonSolutions(s, Problem(s, "itr_analyser", uid)),
         AllSettled(uid), SetPossibleTypes(s, found, "itr_analyser"), UNCHANGED query
  PROVE  /\ AllSettled(uid)' /\ Covers(s)'
         /\ \A x \in InQuery' : x # s /\ Covers(x) => Covers(x)'
<1>1. found \in SUBSET [Names(s) -> Type] /\ "itr_analyser" \in Resolver
  BY DEF PythonSolutions, Assignments, Resolver
<1>2. s \in Select /\ tree.subquery[s] \subseteq InQuery
  BY InQueryFacts
<1>3. \A x \in InQuery : Settled(x, uid)
  BY DEF AllSettled
<1>4. \A c \in tree.subquery[s] : solutions[c] # {}
  BY <1>2, <1>3 DEF Settled
<1>5. Settled(s, uid)' /\ (Whole(s, uid) => Whole(s, uid)') /\ Covers(s)'
  BY <1>2, <1>3, <1>4, ItrKeepsItsSelect
<1>6. /\ tree' \in Tree /\ \A c \in Select \ {s} : tree'.subquery[c] = tree.subquery[c]
      /\ \A c : c \in tree'.subquery[s] <=> c \in tree.subquery[s] /\ Kept(s, found, c) # {}
  BY <1>1, <1>2, NarrowedFacts
<1>7. /\ tree'.subquery \in [Select -> SUBSET Select]
      /\ \A c \in Select : tree'.subquery[c] \subseteq tree.subquery[c]
  BY <1>6 DEF Tree
<1>8. /\ \A x \in InQuery' : x \in InQuery /\ x \in Select
      /\ \A x \in InQuery' : x \in Within[s] => x \in tree'.subquery[s]
  BY <1>7, InQueryNext, InQueryFacts
<1>9. tree.subquery[s] \subseteq Within[s]
  BY <1>2, WithinFacts
<1>10. ASSUME NEW x \in InQuery', x # s
       PROVE  Settled(x, uid)'
  BY <1>1, <1>2, <1>3, <1>8, <1>9, <1>10, NarrowKeepsSettled
<1>11. ASSUME NEW x \in InQuery', x # s, Covers(x)
       PROVE  Covers(x)'
  BY <1>1, <1>2, <1>3, <1>8, <1>11, ItrKeepsCovers
<1>12. ASSUME NEW x \in Range(query.top)
       PROVE  Whole(x, uid)'
  <2>1. PICK i \in DOMAIN query.top : x = query.top[i]
    BY DEF Range
  <2>2. PICK j \in DOMAIN query.top : s \in Below(tree.subquery, query.top[j])
    BY InQueryFacts
  <2>3. s \in Below(Within, query.top[j]) /\ x \in Select
    BY <2>1, <2>2, InQueryFacts, BelowWithin
  <2>4. x \notin tree.subquery[s]
    BY <1>2, <1>9, <2>1, <2>3, TopIsOut
  <2>5. Whole(x, uid)
    BY DEF AllSettled
  <2> QED BY <1>1, <1>2, <1>5, <2>3, <2>4, <2>5, NarrowKeepsSettled
<1>13. \A x \in InQuery' : Settled(x, uid)'
  BY <1>5, <1>10
<1>14. AllSettled(uid)'
  <2>1. Range(query.top)' = Range(query.top)
    BY DEF Range
  <2> QED BY <1>12, <1>13, <2>1 DEF AllSettled
<1> QED BY <1>5, <1>11, <1>14

-----------------------------------------------------------------------------
\* A resolver solves one SELECT.

LEMMA SameAnswers ==
  ASSUME ShapeInv, UNCHANGED <<tree, query, solutions, types>>
  PROVE  /\ InQuery' = InQuery
         /\ \A s, uid : /\ Settled(s, uid)' <=> Settled(s, uid)
                        /\ Whole(s, uid)' <=> Whole(s, uid)
                        /\ Covers(s)' <=> Covers(s)
         /\ \A uid : AllSettled(uid)' <=> AllSettled(uid)
<1>1. InQuery' = InQuery /\ Range(query.top)' = Range(query.top)
  BY DEF InQuery, Range
<1>2. \A s, uid, f : Fits(s, f, uid)' <=> Fits(s, f, uid)
  BY DEF Fits, OneColumn, AliasTypes, ColumnTypes, TermType, SelectedVars, Range
<1>3. \A s : /\ Names(s)' = Names(s) /\ OneColumn(s)' = OneColumn(s)
             /\ \A S : TypesIn(s, S)' = TypesIn(s, S)
  BY SameNames
<1>4. \A s, uid : Settled(s, uid)' <=> Settled(s, uid)
  BY <1>2, <1>3 DEF Settled
<1>5. \A s, uid : Whole(s, uid)' <=> Whole(s, uid)
  BY <1>2, <1>3 DEF Whole
<1>6. \A s : Covers(s)' <=> Covers(s)
  BY <1>3 DEF Covers
<1>7. \A uid : AllSettled(uid)' <=> AllSettled(uid)
  BY <1>1, <1>4, <1>5 DEF AllSettled
<1> QED BY <1>1, <1>4, <1>5, <1>6, <1>7

\* What both kinds of Resolve make of the tree.
LEMMA ResolveNarrows ==
  ASSUME ShapeInv, Resolve, NEW s, s = Current
  PROVE  /\ s \in Select /\ UNCHANGED query /\ tree'.where = tree.where
         /\ tree'.subquery \in [Select -> SUBSET Select]
         /\ \A c \in Select : tree'.subquery[c] \subseteq tree.subquery[c]
         /\ \A c \in Select \ {s} : tree'.subquery[c] = tree.subquery[c]
<1>1. call # NoCall /\ UNCHANGED query
  BY DEF Resolve, Ready
<1>2. s \in Select /\ call.resolver \in Resolver
  BY <1>1, CallFacts
<1>3. CASE SetNoTypes(s)
  BY <1>1, <1>2, <1>3, WithinFacts DEF SetNoTypes
<1>4. ASSUME SetPossibleTypes(s, Solutions(s, call.resolver), call.resolver)
      PROVE  /\ tree'.where = tree.where
             /\ tree'.subquery \in [Select -> SUBSET Select]
             /\ \A c \in Select : tree'.subquery[c] \subseteq tree.subquery[c]
             /\ \A c \in Select \ {s} : tree'.subquery[c] = tree.subquery[c]
  <2> PICK found \in SUBSET [Names(s) -> Type] : found = Solutions(s, call.resolver)
    BY SolutionsAreAssignments
  <2> PICK r \in Resolver : r = call.resolver
    BY <1>2
  <2>1. SetPossibleTypes(s, found, r)
    BY <1>4
  <2>2. /\ tree' \in Tree /\ tree'.where = tree.where
        /\ \A c \in Select \ {s} : tree'.subquery[c] = tree.subquery[c]
        /\ \A c : c \in tree'.subquery[s] <=> c \in tree.subquery[s] /\ Kept(s, found, c) # {}
    BY <1>1, <1>2, <2>1, NarrowedFacts
  <2> QED BY <2>2 DEF Tree
<1> QED BY <1>1, <1>2, <1>3, <1>4 DEF Resolve

LEMMA AnalyserSolves ==
  ASSUME ShapeInv, Resolve, NEW s, s = Current, call.resolver = "analyser",
         NEW uid \in BOOLEAN, uid = UsesUid("analyser")
  PROVE  /\ Settled(s, uid)' /\ Whole(s, uid)'
         /\ \A x \in Select \ {s} :
              (s \notin tree.subquery[x] /\ (x \in tree.subquery[s] => x \in tree'.subquery[s])) =>
                /\ Settled(x, uid) => Settled(x, uid)'
                /\ (x \notin tree.subquery[s] /\ Whole(x, uid)) => Whole(x, uid)'
<1>1. s \in Select /\ UNCHANGED query
  BY ResolveNarrows
<1>2. CASE Names(s) = {} /\ SetNoTypes(s)
  BY <1>1, <1>2, NoTypesSettles, NoTypesKeepsSettled
<1>3. CASE /\ Solutions(s, "analyser") # {}
           /\ SetPossibleTypes(s, Solutions(s, "analyser"), "analyser")
  <2>1. "analyser" \in Resolver
    BY DEF Resolver
  <2> PICK found : found = Solutions(s, "analyser")
    OBVIOUS
  <2>2. found = PythonSolutions(s, Problem(s, "analyser", uid)) /\ found \in SUBSET [Names(s) -> Type]
    BY <1>1, <2>1, FoundByGecode, SolutionsAreAssignments
  <2>3. found # {} /\ SetPossibleTypes(s, found, "analyser")
    BY <1>3
  <2>4. Settled(s, uid)' /\ Whole(s, uid)'
    BY <1>1, <2>2, <2>3, NarrowSettles
  <2> QED BY <1>1, <2>1, <2>2, <2>3, <2>4, NarrowKeepsSettled
<1> QED BY <1>2, <1>3 DEF Resolve

LEMMA ItrSolves ==
  ASSUME ShapeInv, Resolve, NEW s \in InQuery, s = Current, call.resolver = "itr_analyser",
         NEW uid \in BOOLEAN, uid = UsesUid("itr_analyser"), AllSettled(uid)
  PROVE  /\ AllSettled(uid)' /\ Covers(s)'
         /\ \A x \in InQuery' : x # s /\ Covers(x) => Covers(x)'
<1>1. s \in Select /\ UNCHANGED query
  BY ResolveNarrows
<1>2. CASE Names(s) = {} /\ SetNoTypes(s)
  <2>1. solutions[s] # {}
    BY DEF AllSettled, Settled
  <2>2. UNCHANGED <<tree, query, solutions, types>>
    BY <1>1, <1>2, <2>1, NoTypesFacts
  <2>3. Covers(s)
    BY <1>2 DEF Covers
  <2> QED BY <1>1, <2>2, <2>3, SameAnswers, InQueryFacts
<1>3. CASE SetPossibleTypes(s, Solutions(s, "itr_analyser"), "itr_analyser")
  <2>1. "itr_analyser" \in Resolver
    BY DEF Resolver
  <2> PICK found : found = Solutions(s, "itr_analyser")
    OBVIOUS
  <2>2. found = PythonSolutions(s, Problem(s, "itr_analyser", uid))
    BY <1>1, <2>1, FoundByGecode
  <2>3. SetPossibleTypes(s, found, "itr_analyser")
    BY <1>3
  <2> QED BY <1>1, <2>2, <2>3, ItrKeepsAll
<1> QED BY <1>2, <1>3 DEF Resolve

\* What was solved before stays so, unless the SELECT just solved is below it.
LEMMA OneMoreSolved ==
  ASSUME ShapeInv, Resolve, NEW s \in InQuery, s = Current,
         NEW r \in Resolver, r = call.resolver, NEW uid \in BOOLEAN, uid = UsesUid(r),
         r = "itr_analyser" => AllSettled(uid)
  PROVE  /\ Solved(s, r, uid)' /\ (r = "analyser" => Whole(s, uid)') /\ (r = "itr_analyser" => AllSettled(uid)')
         /\ \A c \in InQuery' :
              (s \notin Below(Within, c) /\ SolvedBelow(c, r, uid)) => SolvedBelow(c, r, uid)'
         /\ \A i \in DOMAIN query.top :
              (s \notin Below(Within, query.top[i]) /\ SolvedRoot(query.top[i], r, uid)) =>
                SolvedRoot(query.top[i], r, uid)'
<1>1. /\ s \in Select /\ UNCHANGED query
      /\ tree'.subquery \in [Select -> SUBSET Select]
      /\ \A c \in Select : tree'.subquery[c] \subseteq tree.subquery[c]
  BY ResolveNarrows
<1>2. /\ \A x \in InQuery' : x \in InQuery
      /\ \A c \in InQuery' : Below(tree'.subquery, c) \subseteq InQuery'
      /\ \A c \in Select : Below(tree'.subquery, c) \subseteq Below(tree.subquery, c)
      /\ \A x \in InQuery' : x \in Within[s] => x \in tree'.subquery[s]
      /\ \A i \in DOMAIN query.top : query.top[i] \in InQuery'
  BY <1>1, InQueryNext
<1>3. s \in Below(Within, s)
  BY <1>1, WithinFacts, BelowFacts
<1>4. r = "analyser" \/ r = "itr_analyser"
  BY DEF Resolver
<1>5. r = "analyser" =>
        /\ Settled(s, uid)' /\ Whole(s, uid)'
        /\ \A x \in Select \ {s} :
             (s \notin tree.subquery[x] /\ (x \in tree.subquery[s] => x \in tree'.subquery[s])) =>
               /\ Settled(x, uid) => Settled(x, uid)'
               /\ (x \notin tree.subquery[s] /\ Whole(x, uid)) => Whole(x, uid)'
  BY AnalyserSolves
<1>6. r = "itr_analyser" =>
        /\ AllSettled(uid)' /\ Covers(s)'
        /\ \A x \in InQuery' : x # s /\ Covers(x) => Covers(x)'
  BY ItrSolves
<1>7. ASSUME NEW c \in InQuery', s \notin Below(Within, c), SolvedBelow(c, r, uid)
      PROVE  SolvedBelow(c, r, uid)'
  <2>1. c \in Select
    BY <1>2, <1>7, InQueryFacts
  <2>2. ASSUME NEW x \in Below(tree'.subquery, c)
        PROVE  Solved(x, r, uid)'
    <3>1. x \in InQuery' /\ x \in Below(tree.subquery, c) /\ x \in Below(Within, c) /\ x \in Select
      BY <1>2, <1>7, <2>1, <2>2, BelowWithin, WithinFacts, BelowFacts
    <3>2. Solved(x, r, uid)
      BY <1>7, <3>1 DEF SolvedBelow
    <3>3. x # s
      BY <1>7, <3>1
    <3>4. s \notin tree.subquery[x]
      BY <1>7, <2>1, <3>1, WithinFacts, BelowFacts
    <3>5. x \in tree.subquery[s] => x \in tree'.subquery[s]
      BY <1>1, <1>2, <3>1, WithinFacts
    <3>6. CASE r = "analyser"
      BY <1>5, <3>1, <3>2, <3>3, <3>4, <3>5, <3>6 DEF Solved
    <3>7. CASE r = "itr_analyser"
      BY <1>6, <3>1, <3>2, <3>3, <3>7 DEF Solved
    <3> QED BY <1>4, <3>6, <3>7
  <2> QED BY <2>2 DEF SolvedBelow
<1>8. ASSUME NEW i \in DOMAIN query.top, s \notin Below(Within, query.top[i]),
             SolvedRoot(query.top[i], r, uid)
      PROVE  SolvedRoot(query.top[i], r, uid)'
  <2> PICK x : x = query.top[i]
    OBVIOUS
  <2>1. x \in Select /\ SolvedBelow(x, r, uid)'
    BY <1>2, <1>7, <1>8, InQueryFacts DEF SolvedRoot
  <2>2. ASSUME r = "analyser"
        PROVE  Whole(x, uid)'
    <3>1. Whole(x, uid)
      BY <1>8, <2>2 DEF SolvedRoot
    <3>2. PICK j \in DOMAIN query.top : s \in Below(Within, query.top[j])
      BY <1>1, InQueryFacts, BelowWithin
    <3>3. x \notin tree.subquery[s]
      BY <1>1, <3>2, TopIsOut, WithinFacts
    <3>4. x # s /\ s \notin tree.subquery[x]
      BY <1>3, <1>8, <2>1, WithinFacts, BelowFacts
    <3> QED BY <1>5, <2>1, <2>2, <3>1, <3>3, <3>4
  <2>3. SolvedRoot(x, r, uid)'
    BY <2>1, <2>2 DEF SolvedRoot
  <2>4. x = query'.top[i]
    BY <1>1
  <2> QED BY <2>3, <2>4
<1>9. Solved(s, r, uid)'
  BY <1>4, <1>5, <1>6 DEF Solved
<1> QED BY <1>5, <1>6, <1>7, <1>8, <1>9

LEMMA PathStays ==
  ASSUME ShapeInv, Resolve, NEW next, NEW path, path = call.path, Walk(next, path),
         \A k \in DOMAIN path : path[k].select \in InQuery
  PROVE  \A k \in DOMAIN path :
           /\ path[k].select \in Select /\ path[1].select \in Below(Within, path[k].select)
           /\ path[k].select \in InQuery'
<1> DEFINE s == path[1].select
<1>1. Len(path) \in Nat \ {0} /\ DOMAIN path = 1 .. Len(path)
  BY PathFacts
<1>2. s \in InQuery /\ s = Current
  BY <1>1 DEF Current, Innermost
<1>3. /\ s \in Select /\ UNCHANGED query
      /\ tree'.subquery \in [Select -> SUBSET Select]
      /\ \A c \in Select \ {s} : tree'.subquery[c] = tree.subquery[c]
  BY <1>2, ResolveNarrows
<1>4. ASSUME NEW k \in 1 .. Len(path)
      PROVE  /\ path[k].select \in Select /\ s \in Below(Within, path[k].select)
             /\ path[k].select \in InQuery'
  <2>1. path[k].select \in InQuery /\ s \in Below(Within, path[k].select)
    BY <1>1 DEF Walk
  <2>2. path[k].select \in Select
    BY <2>1, InQueryFacts
  <2> HIDE DEF s
  <2> QED BY <1>3, <2>1, <2>2, AroundStays
<1> QED BY <1>1, <1>4

\* The SELECT whose subquery is solved is solved with it, and what was solved before it.
LEMMA ResolveSolves ==
  ASSUME ShapeInv, Resolve, NEW next, next = call.next, NEW path, path = call.path,
         Walk(next, path), \A k \in DOMAIN path : path[k].select \in InQuery,
         NEW r \in Resolver, r = call.resolver, NEW uid \in BOOLEAN, uid = UsesUid(r),
         r = "itr_analyser" => AllSettled(uid),
         SolvedUpTo(next, path, r, uid)
  PROVE  /\ SolvedBelow(path[1].select, r, uid)'
         /\ \A k \in DOMAIN path : k > 1 => \A i \in DOMAIN query.with[path[k].select] :
              (/\ i < path[k].next - 1
               /\ query.with[path[k].select][i] \in tree'.subquery[path[k].select]) =>
                SolvedBelow(query.with[path[k].select][i], r, uid)'
         /\ \A i \in DOMAIN query.top : i < next - 1 => SolvedRoot(query.top[i], r, uid)'
         /\ Len(path) = 1 => SolvedRoot(query.top[next - 1], r, uid)'
         /\ r = "itr_analyser" => AllSettled(uid)'
<1> DEFINE s == path[1].select
<1>1. Len(path) \in Nat \ {0} /\ DOMAIN path = 1 .. Len(path)
  BY PathFacts
<1>2. s \in InQuery /\ s = Current
  BY <1>1 DEF Current, Innermost
<1> HIDE DEF s
<1>3. /\ s \in Select /\ UNCHANGED query
      /\ tree'.subquery \in [Select -> SUBSET Select]
      /\ \A c \in Select : tree'.subquery[c] \subseteq tree.subquery[c]
      /\ \A c \in Select \ {s} : tree'.subquery[c] = tree.subquery[c]
  BY <1>2, ResolveNarrows
<1>4. ASSUME NEW k \in 1 .. Len(path)
      PROVE  /\ path[k].select \in Select /\ s \in Below(Within, path[k].select)
             /\ path[k].select \in InQuery'
  BY <1>1, PathStays DEF s
<1>5. /\ Solved(s, r, uid)' /\ (r = "analyser" => Whole(s, uid)') /\ (r = "itr_analyser" => AllSettled(uid)')
      /\ \A c \in InQuery' :
           (s \notin Below(Within, c) /\ SolvedBelow(c, r, uid)) => SolvedBelow(c, r, uid)'
      /\ \A i \in DOMAIN query.top :
           (s \notin Below(Within, query.top[i]) /\ SolvedRoot(query.top[i], r, uid)) =>
             SolvedRoot(query.top[i], r, uid)'
  BY <1>2, OneMoreSolved
<1>6. \A c \in InQuery' : tree'.subquery[c] \subseteq InQuery'
  BY <1>3, InQueryNext
<1>7. SolvedBelow(s, r, uid)'
  <2>1. s \in InQuery' /\ s = Current
    BY <1>1, <1>2, <1>4 DEF s
  <2>2. ASSUME NEW c \in tree'.subquery[s]
        PROVE  SolvedBelow(c, r, uid)'
    <3>1. c \in InQuery' /\ c \in tree.subquery[s] /\ c \in Within[s]
      BY <1>3, <1>6, <2>1, <2>2, WithinFacts
    <3>2. s \notin Below(Within, c)
      BY <1>3, <3>1, WithinFacts
    <3>3. Names(s) # {}
      BY <1>3, <3>1, NoNames
    <3>4. PICK i \in DOMAIN query.with[s] : c = query.with[s][i]
      BY <1>3, <3>1, WithinFacts DEF Range
    <3>5. i < path[1].next
      <4>1. query.with[s] \in Seq(Select) /\ path[1].next \in Nat \ {0}
        BY <1>1, <1>3, QueryFacts, PathFacts DEF ShapeInv
      <4>2. i \in 1 .. Len(query.with[s]) /\ Len(query.with[s]) \in Nat
        BY <4>1, LenProperties
      <4>3. Coming = {j \in path[1].next .. Len(query.with[s]) : query.with[s][j] \in tree.subquery[s]}
        BY <2>1 DEF Coming, Innermost
      <4>4. Coming = {}
        BY <2>1, <3>3 DEF Resolve, Ready
      <4>5. i \notin path[1].next .. Len(query.with[s])
        BY <3>1, <3>4, <4>3, <4>4
      <4> QED BY <4>1, <4>2, <4>5
    <3>6. SolvedBelow(c, r, uid)
      BY <1>1, <3>1, <3>4, <3>5 DEF SolvedUpTo, s
    <3> QED BY <1>5, <3>1, <3>2, <3>6
  <2>3. ASSUME NEW x \in Below(tree'.subquery, s), x # s
        PROVE  Solved(x, r, uid)'
    <3> PICK U \in [Select -> SUBSET Select] : U = tree'.subquery
      BY <1>3
    <3>1. PICK c \in U[s] : x \in Below(U, c)
      BY <1>3, <2>3, BelowStep
    <3>2. SolvedBelow(c, r, uid)'
      BY <2>2, <3>1
    <3> QED BY <3>1, <3>2 DEF SolvedBelow
  <2> QED BY <1>5, <2>3 DEF SolvedBelow
<1>8. ASSUME NEW k \in 1 .. Len(path), k > 1, NEW i \in DOMAIN query.with[path[k].select],
             i < path[k].next - 1, query.with[path[k].select][i] \in tree'.subquery[path[k].select]
      PROVE  SolvedBelow(query.with[path[k].select][i], r, uid)'
  <2> DEFINE t == path[k].select
             last == path[k].next - 1
             down == path[k - 1].select
  <2> PICK c : c = query.with[t][i]
    OBVIOUS
  <2>1. t \in Select /\ path[k].next \in Nat \ {0} /\ k - 1 \in 1 .. Len(path) /\ k - 1 < Len(path) /\ (k - 1) + 1 = k
    BY <1>1, <1>4, <1>8, PathFacts
  <2>2. last \in DOMAIN query.with[t] /\ down = query.with[t][last]
    BY <1>1, <2>1 DEF Walk
  <2>3. query.with[t] \in Seq(Select)
    BY <2>1, QueryFacts DEF ShapeInv
  <2>4. i \in Nat /\ i < path[k].next /\ i # last
    BY <1>8, <2>1, <2>3, LenProperties
  <2>5. c \in tree.subquery[t] /\ c \in InQuery'
    BY <1>3, <1>4, <1>6, <1>8, <2>1
  <2>6. SolvedBelow(c, r, uid)
    BY <1>1, <1>8, <2>4, <2>5 DEF SolvedUpTo
  <2>7. s \in Below(Within, down)
    BY <1>4, <2>1
  <2>8. s \notin Below(Within, c)
    <3>1. i \in DOMAIN query.with[t]
      OBVIOUS
    <3> HIDE DEF t, last, down
    <3>2. Apart(Within, query.with[t])
      BY <2>1, WithinFacts
    <3>3. Below(Within, query.with[t][i]) \cap Below(Within, query.with[t][last]) = {}
      BY <2>2, <2>4, <3>1, <3>2 DEF Apart
    <3> QED BY <2>2, <2>7, <3>3
  <2>9. SolvedBelow(c, r, uid)'
    BY <1>5, <2>5, <2>6, <2>8
  <2>10. c = query'.with[path[k].select][i]
    BY <1>3
  <2> QED BY <2>9, <2>10
<1>9. next - 1 \in DOMAIN query.top /\ s \in Below(Within, query.top[next - 1])
  BY <1>1, <1>4 DEF Walk
<1>10. ASSUME NEW i \in DOMAIN query.top, i < next - 1
       PROVE  SolvedRoot(query.top[i], r, uid)'
  <2>1. query.top \in Seq(Select)
    BY QueryFacts DEF ShapeInv
  <2>2. i \in Int /\ next - 1 \in Int /\ i # next - 1
    BY <1>9, <1>10, <2>1, LenProperties
  <2>3. s \notin Below(Within, query.top[i])
    BY <1>3, <1>9, <2>2, TopIsOut
  <2>4. SolvedRoot(query.top[i], r, uid)
    BY <1>10 DEF SolvedUpTo
  <2> QED BY <1>5, <2>3, <2>4
<1>11. ASSUME Len(path) = 1
       PROVE  SolvedRoot(query.top[next - 1], r, uid)'
  <2>1. s = query.top[next - 1]
    BY <1>11 DEF Walk, s
  <2>2. SolvedRoot(s, r, uid)'
    BY <1>5, <1>7 DEF SolvedRoot
  <2>3. s = query'.top[next - 1]
    BY <1>3, <2>1
  <2> QED BY <2>2, <2>3
<1> QED BY <1>1, <1>4, <1>5, <1>7, <1>8, <1>10, <1>11 DEF s

-----------------------------------------------------------------------------
\* Every step keeps FitInv.

LEMMA SameWalk ==
  ASSUME UNCHANGED query, NEW next, NEW path
  PROVE  Walk(next, path)' <=> Walk(next, path)
<1>1. Within' = Within
  BY DEF Within, Range
<1> QED BY <1>1 DEF Walk

LEMMA SameSolved ==
  ASSUME ShapeInv, UNCHANGED <<tree, query, solutions, types>>
  PROVE  \A s, r, uid : /\ SolvedBelow(s, r, uid)' <=> SolvedBelow(s, r, uid)
                        /\ SolvedRoot(s, r, uid)' <=> SolvedRoot(s, r, uid)
<1>1. \A s, r, uid : Solved(s, r, uid)' <=> Solved(s, r, uid)
  BY SameAnswers DEF Solved
<1>2. \A s, r, uid : SolvedBelow(s, r, uid)' <=> SolvedBelow(s, r, uid)
  BY <1>1 DEF SolvedBelow
<1> QED BY <1>2, SameAnswers DEF SolvedRoot

LEMMA HowFacts ==
  ASSUME NEW uid \in BOOLEAN
  PROVE  How(uid) # "no" /\ (How(uid) = "with uid" <=> uid)
         /\ \A other \in BOOLEAN : How(uid) = How(other) => uid = other
BY DEF How

LEMMA RunningFacts ==
  ASSUME NEW r \in Resolver
  PROVE  r # "none" /\ (r = "analyser" \/ r = "itr_analyser")
BY DEF Resolver

LEMMA InitFits == Init => FitInv
<1> SUFFICES ASSUME Init PROVE FitInv
  OBVIOUS
<1>1. call = NoCall /\ answered["analyser"] = "no" /\ answered["itr_analyser"] = "no"
  BY DEF Init, Resolver
<1> QED BY <1>1 DEF FitInv, WalkInv, SolvedInv, AnsweredInv, Standing

LEMMA EditKeepsFit ==
  ASSUME NEW e, AddRelation(e[1], e[2]) \/ RemoveRelation(e[1], e[2])
  PROVE  FitInv'
<1>1. call' = NoCall /\ answered' = Unanswered
  BY DEF AddRelation, RemoveRelation
<1>2. answered'["analyser"] = "no" /\ answered'["itr_analyser"] = "no"
  BY <1>1 DEF Unanswered, Resolver
<1> QED BY <1>1, <1>2 DEF FitInv, WalkInv, SolvedInv, AnsweredInv, Standing

\* An answer that stands is about the query as it is.
LEMMA StandingStays ==
  ASSUME ShapeInv, AnsweredInv, UNCHANGED <<tree, query, solutions, types>>,
         Standing, answered'["analyser"] = answered["analyser"]
  PROVE  AllSettled(AnsweredUid)'
<1> PICK uid \in BOOLEAN : uid = AnsweredUid
  BY DEF AnsweredUid
<1>1. AllSettled(uid)
  BY DEF AnsweredInv
<1>2. AllSettled(uid)'
  BY <1>1, SameAnswers
<1>3. AnsweredUid' = uid
  BY DEF AnsweredUid
<1> QED BY <1>2, <1>3

LEMMA VisitKeepsFit ==
  ASSUME ShapeInv, FitInv, NEW r \in Resolver, NEW given \in BOOLEAN, Visit(r, given)
  PROVE  FitInv'
<1>1. /\ call = NoCall /\ UNCHANGED <<tree, query, solutions, types>>
      /\ call' = [resolver |-> r, given |-> given, next |-> 2, path |-> <<Entered(Head(query.top))>>]
      /\ mapping' = [mapping EXCEPT ![r] = IF given THEN "given" ELSE @]
      /\ answered' = IF r = "itr_analyser" /\ answered["analyser"] # How(given \/ UsesUid(r)) THEN Unanswered
                     ELSE answered
  BY DEF Visit
<1>2. query.top \in Seq(Select) /\ 1 \in DOMAIN query.top /\ Head(query.top) = query.top[1]
  <2>1. query.top \in Seq(Select) /\ query.top # <<>>
    BY QueryFacts DEF ShapeInv
  <2>2. Len(query.top) \in Nat \ {0} /\ DOMAIN query.top = 1 .. Len(query.top)
    BY <2>1, EmptySeq, LenProperties
  <2> QED BY <2>1, <2>2 DEF Head
<1> PICK path : path = <<Entered(query.top[1])>>
  OBVIOUS
<1>3. Walk(1 + 1, path)
  BY <1>2, WalkTop
<1>4. Walk(2, path) /\ DOMAIN path = {1} /\ path[1].select = query.top[1] /\ path[1].next = 1
  BY <1>3 DEF Entered
<1>5. call'.path = path /\ call'.next = 2 /\ call'.resolver = r
  BY <1>1, <1>2
<1>6. WalkInv'
  <2>1. Walk(2, path)'
    BY <1>1, <1>4, SameWalk
  <2>2. path[1].select \in InQuery'
    BY <1>1, <1>2, <1>4, InQueryFacts, SameAnswers
  <2> QED BY <1>4, <1>5, <2>1, <2>2 DEF WalkInv
<1>7. SolvedInv'
  <2>1. \A i \in DOMAIN query'.top : ~(i < 2 - 1)
    BY <1>1, <1>2, LenProperties
  <2>2. \A i \in DOMAIN query'.with[path[1].select] : ~(i < path[1].next)
    <3>1. query.with[query.top[1]] \in Seq(Select)
      BY <1>2, InQueryFacts, QueryFacts DEF ShapeInv
    <3> QED BY <1>1, <1>4, <3>1, LenProperties
  <2>3. \A uid : SolvedUpTo(2, path, r, uid)'
    BY <1>4, <2>1, <2>2 DEF SolvedUpTo
  <2> QED BY <1>5, <2>3 DEF SolvedInv
<1>8. AnsweredInv'
  <2>1. call' # NoCall
    BY <1>5, RunningFacts DEF NoCall
  <2>2. answered'["itr_analyser"] # "no" => answered'["analyser"] # "no"
    BY <1>1 DEF FitInv, AnsweredInv, Unanswered, Resolver
  <2>3. ASSUME Standing'
        PROVE  /\ r = "itr_analyser" /\ answered' = answered /\ Standing
               /\ answered["analyser"] = How(given \/ UsesUid(r))
    <3>1. r = "itr_analyser" /\ answered'["analyser"] # "no"
      BY <1>5, <2>1, <2>3 DEF Standing
    <3>2. answered' = answered /\ answered["analyser"] = How(given \/ UsesUid(r))
      BY <1>1, <3>1 DEF Unanswered, Resolver
    <3> QED BY <1>1, <3>1, <3>2 DEF Standing
  <2>4. Standing' => AllSettled(AnsweredUid)'
    BY <1>1, <2>3, StandingStays DEF FitInv
  <2>5. UsesUid(r)' <=> (given \/ UsesUid(r))
    BY <1>1 DEF UsesUid, ShapeInv, TypeOK
  <2>6. Standing' => answered'["analyser"] = How(UsesUid("itr_analyser"))'
    BY <2>3, <2>5 DEF How
  <2> QED BY <2>1, <2>2, <2>4, <2>6 DEF AnsweredInv, Answered
<1> QED BY <1>6, <1>7, <1>8 DEF FitInv

LEMMA DescendKeepsFit ==
  ASSUME ShapeInv, FitInv, Descend
  PROVE  FitInv'
<1>1. PICK i \in Coming :
        /\ \A j \in Coming : i <= j
        /\ call' = [call EXCEPT !.path =
                     <<Entered(query.with[Current][i]), [Innermost EXCEPT !.next = i + 1]>> \o Tail(@)]
  BY DEF Descend
<1>2. call # NoCall /\ UNCHANGED <<tree, query, solutions, types, mapping, answered>>
  BY DEF Descend
<1> PICK r \in Resolver : r = call.resolver
  BY <1>2, CallFacts
<1> PICK next : next = call.next
  OBVIOUS
<1> PICK path : path = call.path
  OBVIOUS
<1> PICK s : s = path[1].select
  OBVIOUS
<1>3. /\ Walk(next, path) /\ \A k \in DOMAIN path : path[k].select \in InQuery
      /\ Len(path) \in Nat \ {0} /\ DOMAIN path = 1 .. Len(path)
      /\ s \in InQuery /\ s \in Select /\ path[1].next \in Nat \ {0}
      /\ Innermost = path[1] /\ Current = s
  <2>1. Walk(next, path) /\ \A k \in DOMAIN path : path[k].select \in InQuery
    BY <1>2 DEF FitInv, WalkInv
  <2>2. Len(path) \in Nat \ {0} /\ DOMAIN path = 1 .. Len(path)
    BY <2>1, PathFacts
  <2>3. path[1].select \in Select /\ path[1].next \in Nat \ {0}
    BY <2>1, <2>2, PathFacts
  <2> QED BY <2>1, <2>2, <2>3 DEF Innermost, Current
<1>4. query.with[s] \in Seq(Select)
  BY <1>3, QueryFacts DEF ShapeInv
<1>5. /\ Coming = {j \in path[1].next .. Len(query.with[s]) : query.with[s][j] \in tree.subquery[s]}
      /\ Len(query.with[s]) \in Nat /\ DOMAIN query.with[s] = 1 .. Len(query.with[s])
  BY <1>3, <1>4, LenProperties DEF Coming
<1>6. i \in DOMAIN query.with[s] /\ i \in Nat /\ query.with[s][i] \in tree.subquery[s]
  BY <1>3, <1>5
<1> PICK deeper : deeper = Deeper(path, query.with[s][i], i)
  OBVIOUS
<1>7. /\ Walk(next, deeper) /\ Len(deeper) = Len(path) + 1
      /\ deeper[1].select = query.with[s][i] /\ deeper[1].next = 1
      /\ deeper[2].select = s /\ deeper[2].next = i + 1
      /\ \A k \in 3 .. Len(path) + 1 : deeper[k] = path[k - 1]
  <2>1. Walk(next, path)
    BY <1>3
  <2>2. i \in DOMAIN query.with[path[1].select]
    BY <1>6
  <2>3. deeper = Deeper(path, query.with[path[1].select][i], i)
    OBVIOUS
  <2>4. Walk(next, deeper) /\ Len(deeper) = Len(path) + 1
    BY ONLY ShapeInv, <2>1, <2>2, <2>3, WalkIn
  <2>5. /\ deeper[1].select = query.with[path[1].select][i] /\ deeper[1].next = 1
        /\ deeper[2].select = path[1].select /\ deeper[2].next = i + 1
    BY ONLY ShapeInv, <2>1, <2>2, <2>3, WalkIn
  <2>6. \A k \in 3 .. Len(path) + 1 : deeper[k] = path[k - 1]
    BY ONLY ShapeInv, <2>1, <2>2, <2>3, WalkIn
  <2> QED BY <2>4, <2>5, <2>6
<1>8. call'.path = deeper /\ call'.next = next /\ call'.resolver = r /\ call' # NoCall
  <2>1. call' = [call EXCEPT !.path = deeper]
    BY <1>1, <1>3 DEF Deeper
  <2>2. call'.path = deeper /\ call'.next = next /\ call'.resolver = r
    BY <1>2, <2>1, CallFacts
  <2> QED BY <2>2, RunningFacts DEF NoCall
<1>9. /\ deeper[1].select = query.with[s][i] /\ deeper[1].next = 1
      /\ deeper[2].select = s /\ deeper[2].next = i + 1
  BY <1>7
<1>10. \A k \in DOMAIN deeper : k = 1 \/ k = 2 \/ (k \in 3 .. Len(path) + 1 /\ k - 1 \in DOMAIN path /\ k - 1 > 1)
  <2> PICK n \in Nat : n = Len(path)
    BY <1>3
  <2>1. DOMAIN deeper = 1 .. n + 1 /\ DOMAIN path = 1 .. n
    BY <1>3, <1>7, PathFacts
  <2>2. \A k \in 1 .. n + 1 : k = 1 \/ k = 2 \/ (k \in 3 .. n + 1 /\ k - 1 \in 1 .. n /\ k - 1 > 1)
    OBVIOUS
  <2> QED BY <2>1, <2>2
<1>11. WalkInv'
  <2>1. Walk(next, deeper)'
    BY <1>2, <1>7, SameWalk
  <2>2. query.with[s][i] \in InQuery
    BY <1>3, <1>6, InQueryFacts
  <2>3. ASSUME NEW k \in DOMAIN deeper
        PROVE  deeper[k].select \in InQuery
    <3>1. CASE k = 1
      BY <1>9, <2>2, <3>1
    <3>2. CASE k = 2
      BY <1>3, <1>9, <3>2
    <3>3. CASE k \in 3 .. Len(path) + 1 /\ k - 1 \in DOMAIN path
      BY <1>3, <1>7, <3>3
    <3> QED BY <1>10, <3>1, <3>2, <3>3
  <2>4. InQuery' = InQuery
    BY <1>2, SameAnswers
  <2> QED BY <1>8, <2>1, <2>3, <2>4 DEF WalkInv
<1>12. SolvedInv'
  <2> PICK uid \in BOOLEAN : uid = UsesUid(r)
    BY DEF UsesUid
  <2>1. SUFFICES ASSUME r = "itr_analyser" => answered["analyser"] # "no"
                 PROVE  SolvedUpTo(next, deeper, r, uid)'
    BY <1>2, <1>8 DEF SolvedInv, UsesUid
  <2>2. SolvedUpTo(next, path, r, uid)
    BY <1>2, <2>1 DEF FitInv, SolvedInv
  <2>3. ASSUME NEW k \in DOMAIN deeper, NEW j \in DOMAIN query.with[deeper[k].select],
               j < deeper[k].next, k > 1 => j # deeper[k].next - 1,
               query.with[deeper[k].select][j] \in tree.subquery[deeper[k].select]
        PROVE  SolvedBelow(query.with[deeper[k].select][j], r, uid)
    <3>1. CASE k = 1
      <4>1. query.with[query.with[s][i]] \in Seq(Select)
        BY <1>4, <1>6, ElementOfSeq, LenProperties, QueryFacts DEF ShapeInv
      <4>2. j \in DOMAIN query.with[query.with[s][i]] /\ j < 1
        BY <1>9, <2>3, <3>1
      <4> QED BY <4>1, <4>2, LenProperties
    <3>2. CASE k = 2
      <4>1. /\ j \in DOMAIN query.with[s] /\ j < i + 1 /\ j # (i + 1) - 1
            /\ query.with[s][j] \in tree.subquery[s]
        <5>1. deeper[k].select = s /\ deeper[k].next = i + 1
          BY <1>9, <3>2
        <5>2. k > 1
          BY <3>2
        <5> QED BY <2>3, <5>1, <5>2
      <4> PICK n \in Nat : n = Len(query.with[s])
        BY <1>5
      <4> PICK m \in Nat \ {0} : m = path[1].next
        BY <1>3
      <4>2. j \in 1 .. n
        BY <1>5, <4>1
      <4>3. j < i
        BY <1>6, <4>1, <4>2
      <4>4. j \notin Coming
        BY <1>1, <1>6, <4>2, <4>3
      <4>6. j \notin m .. n
        BY <1>5, <4>1, <4>4
      <4>7. j < path[1].next
        BY <4>2, <4>6
      <4>5. 1 \in DOMAIN path /\ ~(1 > 1)
        BY <1>3
      <4> QED BY <1>9, <2>2, <3>2, <4>1, <4>5, <4>7 DEF SolvedUpTo
    <3>3. CASE k \in 3 .. Len(path) + 1 /\ k - 1 \in DOMAIN path /\ k - 1 > 1
      <4>1. deeper[k] = path[k - 1]
        BY <1>7, <3>3
      <4> PICK m \in DOMAIN path : m = k - 1
        BY <3>3
      <4> QED BY <2>2, <2>3, <3>3, <4>1 DEF SolvedUpTo
    <3> QED BY <1>10, <3>1, <3>2, <3>3
  <2>4. SolvedUpTo(next, deeper, r, uid)
    <3>1. \A j \in DOMAIN query.top : j < next - 1 => SolvedRoot(query.top[j], r, uid)
      BY <2>2 DEF SolvedUpTo
    <3>2. \A k \in DOMAIN deeper : \A j \in DOMAIN query.with[deeper[k].select] :
            (/\ j < deeper[k].next /\ (k > 1 => j # deeper[k].next - 1)
             /\ query.with[deeper[k].select][j] \in tree.subquery[deeper[k].select]) =>
              SolvedBelow(query.with[deeper[k].select][j], r, uid)
      BY ONLY <2>3
    <3> QED BY ONLY <3>1, <3>2 DEF SolvedUpTo
  <2> QED BY <1>2, <2>4, SameSolved DEF SolvedUpTo
<1>13. AnsweredInv'
  <2>1. Standing' <=> Standing
    BY <1>2, <1>8 DEF Standing
  <2>2. Standing' => AllSettled(AnsweredUid)'
    BY <1>2, <2>1, StandingStays DEF FitInv
  <2>3. How(UsesUid("itr_analyser"))' = How(UsesUid("itr_analyser"))
    BY <1>2 DEF UsesUid, How
  <2> QED BY <1>2, <1>8, <2>1, <2>2, <2>3 DEF AnsweredInv, FitInv, Answered
<1> QED BY <1>11, <1>12, <1>13 DEF FitInv

\* Whether the answers of a call will count.
Counts(r) == r = "itr_analyser" => answered["analyser"] # "no"

LEMMA RunningAnswers ==
  ASSUME ShapeInv, FitInv, call # NoCall, NEW r \in Resolver, r = call.resolver,
         NEW uid \in BOOLEAN, uid = UsesUid(r), Counts(r)
  PROVE  /\ SolvedUpTo(call.next, call.path, r, uid)
         /\ r = "itr_analyser" => Standing /\ AllSettled(uid) /\ (AnsweredUid <=> uid)
<1>1. SolvedUpTo(call.next, call.path, r, uid)
  BY DEF FitInv, SolvedInv, Counts
<1>2. ASSUME r = "itr_analyser"
      PROVE  Standing /\ AllSettled(uid) /\ (AnsweredUid <=> uid)
  <2>1. Standing
    BY <1>2 DEF Standing, Counts
  <2>2. answered["analyser"] = How(uid) /\ AllSettled(AnsweredUid)
    BY <1>2, <2>1 DEF FitInv, AnsweredInv
  <2>3. AnsweredUid = uid
    BY <2>2, HowFacts DEF AnsweredUid
  <2> QED BY <2>1, <2>2, <2>3
<1> QED BY <1>1, <1>2

LEMMA GoingOnKeepsAnswers ==
  ASSUME FitInv, call # NoCall, NEW r \in Resolver, r = call.resolver, NEW uid \in BOOLEAN,
         call' # NoCall, call'.resolver = r, UNCHANGED <<mapping, answered>>,
         (r = "itr_analyser" /\ Counts(r)) => AllSettled(uid)' /\ (AnsweredUid <=> uid)
  PROVE  AnsweredInv'
<1>1. Standing' => Standing /\ r = "itr_analyser" /\ Counts(r)
  BY DEF Standing, Counts
<1>2. AnsweredUid' = AnsweredUid /\ AnsweredUid \in BOOLEAN
  BY DEF AnsweredUid
<1>3. Standing' => AllSettled(AnsweredUid)'
  <2>1. SUFFICES ASSUME Standing' PROVE AllSettled(AnsweredUid)'
    OBVIOUS
  <2>2. AllSettled(uid)' /\ AnsweredUid' = uid
    BY <1>1, <1>2, <2>1
  <2> QED BY <2>2
<1>4. How(UsesUid("itr_analyser"))' = How(UsesUid("itr_analyser"))
  BY DEF How, UsesUid
<1> QED BY <1>1, <1>3, <1>4 DEF FitInv, AnsweredInv, Answered

LEMMA ResolveKeepsFit ==
  ASSUME ShapeInv, FitInv, Resolve
  PROVE  FitInv'
<1>1. call # NoCall /\ Continue /\ UNCHANGED query
  BY DEF Resolve, Ready
<1> PICK r \in Resolver : r = call.resolver
  BY <1>1, CallFacts
<1> PICK next \in Nat \ {0} : next = call.next
  BY <1>1, CallFacts
<1> PICK path : path = call.path
  OBVIOUS
<1> PICK uid \in BOOLEAN : uid = UsesUid(r)
  BY DEF UsesUid
<1>2. Walk(next, path) /\ \A k \in DOMAIN path : path[k].select \in InQuery
  BY <1>1 DEF FitInv, WalkInv
<1>3. Len(path) \in Nat \ {0} /\ DOMAIN path = 1 .. Len(path)
  BY <1>2, PathFacts
<1>4. \A k \in DOMAIN path : path[k].select \in InQuery' /\ path[k].select \in Select
  BY <1>2, PathStays
<1>5. Counts(r) => SolvedUpTo(next, path, r, uid) /\ (r = "itr_analyser" => AllSettled(uid) /\ (AnsweredUid <=> uid))
  BY <1>1, RunningAnswers
<1>6. Counts(r) =>
        /\ SolvedBelow(path[1].select, r, uid)'
        /\ \A k \in DOMAIN path : k > 1 => \A i \in DOMAIN query.with[path[k].select] :
             (/\ i < path[k].next - 1
              /\ query.with[path[k].select][i] \in tree'.subquery[path[k].select]) =>
               SolvedBelow(query.with[path[k].select][i], r, uid)'
        /\ \A i \in DOMAIN query.top : i < next - 1 => SolvedRoot(query.top[i], r, uid)'
        /\ Len(path) = 1 => SolvedRoot(query.top[next - 1], r, uid)'
        /\ r = "itr_analyser" => AllSettled(uid)'
  BY <1>2, <1>5, ResolveSolves
<1>7. next - 1 \in DOMAIN query.top /\ query.top \in Seq(Select)
  BY <1>2, QueryFacts DEF Walk, ShapeInv
<1>8. Len(query.top) \in Nat /\ DOMAIN query.top = 1 .. Len(query.top)
  BY <1>7, LenProperties
<1>9. CASE Len(path) > 1
  <2> PICK rest : rest = Tail(path)
    OBVIOUS
  <2>1. call' = [call EXCEPT !.path = rest] /\ UNCHANGED <<mapping, answered>>
    BY <1>1, <1>9 DEF Continue
  <2>2. call'.path = rest /\ call'.next = next /\ call'.resolver = r /\ call' # NoCall
    <3>1. call'.path = rest /\ call'.next = next /\ call'.resolver = r
      BY <1>1, <2>1, CallFacts
    <3> QED BY <3>1, RunningFacts DEF NoCall
  <2>3. Walk(next, rest) /\ Len(rest) = Len(path) - 1 /\ \A k \in 1 .. Len(path) - 1 : rest[k] = path[k + 1]
    BY <1>2, <1>9, WalkOut
  <2>4. DOMAIN rest = 1 .. Len(path) - 1
    BY <2>3, PathFacts
  <2>5. \A k \in DOMAIN rest : rest[k] = path[k + 1] /\ k + 1 \in DOMAIN path /\ k + 1 > 1
    BY <1>3, <2>3, <2>4
  <2>6. WalkInv'
    <3>1. Walk(next, rest)'
      BY <1>1, <2>3, SameWalk
    <3>2. \A k \in DOMAIN rest : rest[k].select \in InQuery'
      BY <1>4, <2>5
    <3> QED BY <2>2, <3>1, <3>2 DEF WalkInv
  <2>7. SolvedInv'
    <3>1. SUFFICES ASSUME Counts(r)
                   PROVE  SolvedUpTo(next, rest, r, uid)'
      BY <2>1, <2>2 DEF SolvedInv, UsesUid, Counts
    <3>2. ASSUME NEW k \in DOMAIN rest, NEW i \in DOMAIN query.with[rest[k].select],
                 i < rest[k].next, k > 1 => i # rest[k].next - 1,
                 query.with[rest[k].select][i] \in tree'.subquery[rest[k].select]
          PROVE  SolvedBelow(query.with[rest[k].select][i], r, uid)'
      <4> PICK m \in DOMAIN path : m = k + 1
        BY <2>5
      <4>1. rest[k] = path[m] /\ m > 1 /\ path[m].next \in Nat \ {0} /\ path[m].select \in Select
        BY <1>2, <1>3, <1>4, <2>5, PathFacts
      <4>2. i \in Nat
        <5>1. query.with[path[m].select] \in Seq(Select)
          BY <4>1, QueryFacts DEF ShapeInv
        <5> QED BY <3>2, <4>1, <5>1, LenProperties
      <4>3. CASE i = path[m].next - 1
        <5>1. k = 1
          BY <2>4, <3>2, <4>1, <4>3
        <5>2. path[1].select = query.with[path[2].select][path[2].next - 1]
          <6>1. 1 \in DOMAIN path /\ 1 + 1 = 2
            BY <1>3
          <6>2. \A j \in DOMAIN path : j < Len(path) =>
                  path[j].select = query.with[path[j + 1].select][path[j + 1].next - 1]
            BY <1>2 DEF Walk
          <6> QED BY <1>9, <6>1, <6>2
        <5>3. path[1].select = query.with[rest[k].select][i]
          BY <4>1, <4>3, <5>1, <5>2
        <5>4. SolvedBelow(path[1].select, r, uid)'
          BY <1>6, <3>1
        <5>5. path[1].select = query'.with[rest[k].select][i]
          BY <1>1, <5>3
        <5> QED BY ONLY <5>4, <5>5
      <4>4. CASE i # path[m].next - 1
        <5> PICK n \in Nat \ {0} : n = path[m].next
          BY <4>1
        <5>1. i < n /\ i # n - 1
          BY <3>2, <4>1, <4>4
        <5>2. i < n - 1
          BY ONLY <5>1, <4>2, n \in Nat \ {0}
        <5>3. i \in DOMAIN query.with[path[m].select] /\ query.with[path[m].select][i] \in tree'.subquery[path[m].select]
          BY <3>2, <4>1
        <5>4. SolvedBelow(query.with[path[m].select][i], r, uid)'
          BY <1>6, <3>1, <4>1, <5>2, <5>3
        <5> QED BY <4>1, <5>4
      <4> QED BY <4>3, <4>4
    <3>3. \A i \in DOMAIN query.top : i < next - 1 => SolvedRoot(query.top[i], r, uid)'
      BY <1>6, <3>1
    <3> QED BY <1>1, <3>2, <3>3 DEF SolvedUpTo
  <2>8. AnsweredInv'
    BY <1>1, <1>5, <1>6, <2>1, <2>2, GoingOnKeepsAnswers
  <2> QED BY <2>6, <2>7, <2>8 DEF FitInv
<1>10. CASE ~(Len(path) > 1) /\ next <= Len(query.top)
  <2> PICK there : there = <<Entered(query.top[next])>>
    OBVIOUS
  <2>1. /\ call' = [call EXCEPT !.next = next + 1, !.path = there]
        /\ UNCHANGED <<mapping, answered>>
    BY <1>1, <1>10 DEF Continue
  <2>2. call'.path = there /\ call'.next = next + 1 /\ call'.resolver = r /\ call' # NoCall
    <3>1. call'.path = there /\ call'.next = next + 1 /\ call'.resolver = r
      BY <1>1, <2>1, CallFacts
    <3> QED BY <3>1, RunningFacts DEF NoCall
  <2>3. next \in DOMAIN query.top /\ query.top[next] \in Select
    BY <1>7, <1>8, <1>10, ElementOfSeq
  <2>4. Walk(next + 1, there)
    BY <2>3, WalkTop
  <2>5. DOMAIN there = {1} /\ there[1].select = query.top[next] /\ there[1].next = 1
    BY DEF Entered
  <2>6. WalkInv'
    <3>1. Walk(next + 1, there)'
      BY <1>1, <2>4, SameWalk
    <3>2. query.top[next] \in InQuery'
      <4> PICK s : s = Current
        OBVIOUS
      <4>1. /\ tree'.subquery \in [Select -> SUBSET Select]
            /\ \A c \in Select : tree'.subquery[c] \subseteq tree.subquery[c]
        BY ResolveNarrows
      <4> QED BY <1>1, <2>3, <4>1, InQueryNext
    <3> QED BY <2>2, <2>5, <3>1, <3>2 DEF WalkInv
  <2>7. SolvedInv'
    <3>1. SUFFICES ASSUME Counts(r)
                   PROVE  SolvedUpTo(next + 1, there, r, uid)'
      BY <2>1, <2>2 DEF SolvedInv, UsesUid, Counts
    <3>2. \A i \in DOMAIN query.with[there[1].select] : ~(i < there[1].next)
      <4>1. query.with[query.top[next]] \in Seq(Select)
        BY <2>3, QueryFacts DEF ShapeInv
      <4> QED BY <2>5, <4>1, LenProperties
    <3>3. ASSUME NEW i \in DOMAIN query.top, i < (next + 1) - 1
          PROVE  SolvedRoot(query.top[i], r, uid)'
      <4>1. i < next - 1 \/ i = next - 1
        BY <1>8, <3>3
      <4>2. Len(path) = 1
        BY ONLY <1>3, <1>10
      <4> QED BY <1>6, <3>1, <4>1, <4>2
    <3> QED BY <1>1, <2>5, <3>2, <3>3 DEF SolvedUpTo
  <2>8. AnsweredInv'
    BY <1>1, <1>5, <1>6, <2>1, <2>2, GoingOnKeepsAnswers
  <2> QED BY <2>6, <2>7, <2>8 DEF FitInv
<1>11. CASE ~(Len(path) > 1) /\ ~(next <= Len(query.top))
  <2>1. /\ call' = NoCall
        /\ answered' = IF r = "analyser" THEN [Unanswered EXCEPT ![r] = How(uid)]
                       ELSE [answered EXCEPT ![r] = IF answered["analyser"] = "no" THEN "no" ELSE How(uid)]
    BY <1>1, <1>11 DEF Continue
  <2>2. ASSUME Counts(r), NEW i \in DOMAIN query.top
        PROVE  SolvedRoot(query.top[i], r, uid)'
    <3>1. i < next - 1 \/ i = next - 1
      BY <1>8, <1>11
    <3>2. Len(path) = 1
      BY ONLY <1>3, <1>11
    <3> QED BY <1>6, <2>2, <3>1, <3>2
  <2>3. \A x \in InQuery' : \E i \in DOMAIN query.top : x \in Below(tree'.subquery, query.top[i])
    BY <1>1 DEF InQuery, Range
  <2>4. ASSUME Counts(r), NEW x \in InQuery'
        PROVE  Solved(x, r, uid)'
    <3>1. PICK i \in DOMAIN query.top : x \in Below(tree'.subquery, query.top[i])
      BY <2>3
    <3> QED BY <1>1, <2>2, <2>4, <3>1 DEF SolvedRoot, SolvedBelow
  <2>5. CASE r = "analyser"
    <3>1. answered'["analyser"] = How(uid) /\ answered'["itr_analyser"] = "no"
      BY <2>1, <2>5 DEF Unanswered, Resolver
    <3>2. AnsweredUid' = uid /\ Counts(r)
      BY <2>5, <3>1, HowFacts DEF AnsweredUid, Counts
    <3>3. \A x \in InQuery' : Settled(x, uid)'
      BY <2>4, <2>5, <3>2 DEF Solved
    <3>4. ASSUME NEW t \in Range(query.top)'
          PROVE  Whole(t, uid)'
      <4>1. PICK i \in DOMAIN query.top : t = query.top[i]
        BY <1>1 DEF Range
      <4>2. t = query'.top[i]
        BY <1>1, <4>1
      <4>3. Whole(query.top[i], uid)'
        BY <2>2, <2>5, <3>2 DEF SolvedRoot
      <4> QED BY <4>2, <4>3
    <3>5. AllSettled(uid)'
      BY <3>3, <3>4 DEF AllSettled
    <3>6. AllSettled(AnsweredUid)'
      BY <3>2, <3>5
    <3> QED BY <2>1, <3>1, <3>6 DEF FitInv, WalkInv, SolvedInv, AnsweredInv, Answered
  <2>6. CASE r = "itr_analyser"
    <3>1. /\ answered'["analyser"] = answered["analyser"]
          /\ answered'["itr_analyser"] = IF answered["analyser"] = "no" THEN "no" ELSE How(uid)
      BY <2>1, <2>6 DEF ShapeInv, TypeOK, Resolver
    <3>2. AnsweredUid' = AnsweredUid
      BY <3>1 DEF AnsweredUid
    <3>3. Standing' => Counts(r)
      BY <3>1 DEF Standing, Counts
    <3>4. Standing' => AllSettled(AnsweredUid)'
      <4>1. SUFFICES ASSUME Standing' PROVE AllSettled(AnsweredUid)'
        OBVIOUS
      <4>2. AllSettled(uid)' /\ (AnsweredUid <=> uid) /\ AnsweredUid \in BOOLEAN
        BY <1>5, <1>6, <2>6, <3>3, <4>1 DEF AnsweredUid
      <4>3. AnsweredUid' = uid
        BY <3>2, <4>2
      <4> QED BY <4>2, <4>3
    <3>5. Standing' => \A x \in InQuery' : Covers(x)'
      BY <2>4, <2>6, <3>3 DEF Solved
    <3> QED BY <2>1, <3>1, <3>4, <3>5 DEF FitInv, WalkInv, SolvedInv, AnsweredInv
  <2> QED BY <2>5, <2>6, RunningFacts
<1> QED BY <1>3, <1>8, <1>9, <1>10, <1>11

LEMMA RaiseKeepsFit ==
  ASSUME ShapeInv, FitInv, ResolveRaises
  PROVE  FitInv'
<1>1. /\ call # NoCall /\ call' = NoCall /\ UNCHANGED <<tree, query, solutions, types, mapping>>
      /\ answered' = IF call.resolver = "analyser" THEN Unanswered ELSE [answered EXCEPT !["itr_analyser"] = "no"]
  BY DEF ResolveRaises, Ready
<1>2. call.resolver = "analyser" \/ call.resolver = "itr_analyser"
  BY <1>1, CallFacts, RunningFacts
<1>3. answered'["itr_analyser"] = "no"
  BY <1>1 DEF Unanswered, ShapeInv, TypeOK, Resolver
<1>4. Standing' => AllSettled(AnsweredUid)'
  <2>1. CASE call.resolver = "analyser"
    BY <1>1, <2>1 DEF Unanswered, Resolver, Standing
  <2>2. CASE call.resolver = "itr_analyser"
    <3>1. answered'["analyser"] = answered["analyser"]
      BY <1>1, <2>2 DEF ShapeInv, TypeOK, Resolver
    <3>2. Standing' => Standing
      BY <2>2, <3>1 DEF Standing
    <3> QED BY <1>1, <3>1, <3>2, StandingStays DEF FitInv
  <2> QED BY <1>2, <2>1, <2>2
<1> QED BY <1>1, <1>3, <1>4 DEF FitInv, WalkInv, SolvedInv, AnsweredInv, Answered

LEMMA StutterKeepsFit ==
  ASSUME ShapeInv, FitInv, UNCHANGED vars
  PROVE  FitInv'
<1>1. UNCHANGED <<tree, query, solutions, types, mapping, call, answered>>
  BY DEF vars
<1>2. InQuery' = InQuery /\ \A s : Covers(s)' <=> Covers(s)
  BY <1>1, SameAnswers
<1>3. WalkInv'
  <2> PICK next, path : next = call.next /\ path = call.path
    OBVIOUS
  <2>1. Walk(next, path)' <=> Walk(next, path)
    BY <1>1, SameWalk
  <2>2. call'.next = next /\ call'.path = path
    BY <1>1
  <2> QED BY <1>1, <1>2, <2>1, <2>2 DEF FitInv, WalkInv
<1>4. SolvedInv'
  <2> PICK next, path, r, uid : next = call.next /\ path = call.path /\ r = call.resolver /\ uid = UsesUid(r)
    OBVIOUS
  <2>1. SolvedUpTo(next, path, r, uid)' <=> SolvedUpTo(next, path, r, uid)
    BY <1>1, SameSolved DEF SolvedUpTo
  <2>2. UsesUid(r)' = UsesUid(r)
    BY <1>1 DEF UsesUid
  <2> QED BY <1>1, <2>1, <2>2 DEF FitInv, SolvedInv
<1>5. AnsweredInv'
  <2>1. Standing' <=> Standing
    BY <1>1 DEF Standing
  <2>2. Standing' => AllSettled(AnsweredUid)'
    BY <1>1, <2>1, StandingStays DEF FitInv
  <2>3. How(UsesUid("itr_analyser"))' = How(UsesUid("itr_analyser"))
    BY <1>1 DEF UsesUid, How
  <2> QED BY <1>1, <1>2, <2>1, <2>2, <2>3 DEF FitInv, AnsweredInv, Answered
<1> QED BY <1>3, <1>4, <1>5 DEF FitInv

LEMMA StepKeepsFit == ShapeInv /\ FitInv /\ [Next]_vars => FitInv'
<1> SUFFICES ASSUME ShapeInv, FitInv, [Next]_vars PROVE FitInv'
  OBVIOUS
<1>1. CASE UNCHANGED vars
  BY <1>1, StutterKeepsFit
<1>2. ASSUME NEW e \in query.edits, AddRelation(e[1], e[2]) \/ RemoveRelation(e[1], e[2])
      PROVE  FitInv'
  BY <1>2, EditKeepsFit
<1>3. ASSUME NEW r \in Resolver, NEW given \in BOOLEAN, Visit(r, given)
      PROVE  FitInv'
  BY <1>3, VisitKeepsFit
<1>4. CASE Descend
  BY <1>4, DescendKeepsFit
<1>5. CASE Resolve
  BY <1>5, ResolveKeepsFit
<1>6. CASE ResolveRaises
  BY <1>6, RaiseKeepsFit
<1> QED BY <1>1, <1>2, <1>3, <1>4, <1>5, <1>6 DEF Next

\* What the walk of a call has solved so far stays solved until an edit or a call that
\* resolves again, in every SELECT that is still in the query: in it rest the properties below.
THEOREM CallsKeepTheFit == Spec => []FitInv
<1> QED BY InitShape, StepKeepsShape, InitFits, StepKeepsFit, PTL DEF Spec

LEMMA AnsweredFacts ==
  ASSUME ShapeInv, FitInv, Answered("analyser")
  PROVE  AllSettled(answered["analyser"] = "with uid")
BY DEF FitInv, AnsweredInv, Standing, Answered, AnsweredUid

\* Once compute_solutions has answered, every solution of every SELECT that is still in the
\* query fits it, subqueries included, whatever aliases narrowed and removed on the way.
THEOREM SolutionsAlwaysFit == Spec => []SolutionsFit
<1>1. ShapeInv /\ FitInv => SolutionsFit
  BY AnsweredFacts DEF ShapeInv, SolutionsFit, AllSettled, Settled
<1> QED BY <1>1, CallsKeepTheShape, CallsKeepTheFit, PTL

\* And the solutions of the root are all that fit: no narrowing, of a subquery visited
\* earlier or of a SELECT of the root beside it, takes one away.
THEOREM SolutionsStayComplete == Spec => []SolutionsAreComplete
<1>1. ShapeInv /\ FitInv => SolutionsAreComplete
  BY AnsweredFacts DEF SolutionsAreComplete, AllSettled, Whole
<1> QED BY <1>1, CallsKeepTheShape, CallsKeepTheFit, PTL

\* The types of an alias of the root are those of its column, and compute_all_solutions
\* leaves each variable at least the types that compute_solutions gave it.
THEOREM TypesAlwaysAgree == Spec => []TypesAgree
<1>1. ASSUME ShapeInv, FitInv, Answered("analyser"),
             NEW s \in Range(query.top), OneColumn(s), NEW i \in DOMAIN query.aliases[s]
      PROVE  types["possibletypes"][s][query.aliases[s][i]] = ColumnTypes(tree, solutions, s, i)
  <2> PICK uid \in BOOLEAN : uid = (answered["analyser"] = "with uid")
    OBVIOUS
  <2> PICK v : v = query.aliases[s][i]
    OBVIOUS
  <2>1. AllSettled(uid)
    BY <1>1, AnsweredFacts
  <2>2. PICK j \in DOMAIN query.top : s = query.top[j]
    BY DEF Range
  <2>3. s \in InQuery /\ s \in Select
    BY <1>1, <2>2, InQueryFacts
  <2>4. Settled(s, uid) /\ Whole(s, uid)
    BY <1>1, <2>1, <2>3 DEF AllSettled
  <2>5. v \in Range(query.aliases[s]) /\ v \in Names(s)
    BY <1>1 DEF Range, Names, NamesOf
  <2>6. ASSUME NEW type
        PROVE  type \in TypesIn(s, solutions[s])[v] <=> \E f \in solutions[s] : f[v] = type
    BY <2>5 DEF TypesIn
  <2>7. ASSUME NEW f \in solutions[s]
        PROVE  f[v] \in ColumnTypes(tree, solutions, s, i)
    <3>1. f[v] \in AliasTypes(tree, solutions, s, v)
      BY <1>1, <2>4, <2>5, FitsByParts DEF Settled
    <3>2. PICK k \in DOMAIN query.aliases[s] : f[v] \in ColumnTypes(tree, solutions, s, k)
      BY <3>1, AliasTypesByColumn
    <3> QED BY <1>1, <2>3, <3>2, OneAlias
  <2>8. ASSUME NEW type, type \in ColumnTypes(tree, solutions, s, i)
        PROVE  \E f \in solutions[s] : f[v] = type
    <3>1. PICK c \in tree.subquery[s] : \E g \in solutions[c] : type = TermType(query.columns[c][i], g)
      <4>1. PICK t, sols : t = tree /\ sols = solutions
        OBVIOUS
      <4>2. type \in ColumnTypes(t, sols, s, i)
        BY <2>8, <4>1
      <4>3. \E c \in t.subquery[s] : \E g \in sols[c] : type = TermType(query.columns[c][i], g)
        BY ONLY <4>2, ColumnTypesBySolution
      <4> QED BY ONLY <4>1, <4>3
    <3>2. PICK g \in solutions[c] : type = TermType(query.columns[c][i], g)
      BY <3>1
    <3>3. PICK f \in [Names(s) -> Type] : Fits(s, f, uid) /\ f[v] = type
      BY <1>1, <2>4, <3>2 DEF Settled
    <3>4. f \in solutions[s]
      BY <1>1, <2>4, <3>3 DEF Whole
    <3> QED BY <3>3, <3>4
  <2>9. types["possibletypes"][s] = TypesIn(s, solutions[s])
    BY <2>4 DEF Settled
  <2>10. TypesIn(s, solutions[s])[v] = ColumnTypes(tree, solutions, s, i)
    <3>1. PICK inSelect : inSelect = TypesIn(s, solutions[s])[v]
      OBVIOUS
    <3>2. PICK inColumn : inColumn = ColumnTypes(tree, solutions, s, i)
      OBVIOUS
    <3>3. ASSUME NEW type
          PROVE  type \in inSelect <=> type \in inColumn
      BY ONLY <2>6, <2>7, <2>8, <3>1, <3>2
    <3>4. inSelect = inColumn
      BY ONLY <3>3
    <3> QED BY <3>1, <3>2, <3>4
  <2> QED BY <2>9, <2>10
<1>2. ShapeInv /\ FitInv => AliasesAgree
  BY <1>1 DEF AliasesAgree
<1>3. ShapeInv /\ FitInv => AllTypesContainTypes
  <2>1. (FitInv /\ Answered("analyser") /\ Answered("itr_analyser")) => \A s \in InQuery : Covers(s)
    BY DEF FitInv, AnsweredInv, Standing, Answered
  <2> QED BY <2>1 DEF AllTypesContainTypes, Covers
<1> QED BY <1>2, <1>3, CallsKeepTheShape, CallsKeepTheFit, PTL DEF TypesAgree

\* compute_all_solutions with the mapping of compute_solutions changes neither the tree nor
\* the solutions, at any step of its walk, of a SELECT with at most one alias.
THEOREM AllSolutionsNarrowNothing == Spec => AllSolutionsKeepSolutions
<1> DEFINE Alone == (Ready /\ call.resolver = "itr_analyser" /\ answered["analyser"] # "no"
                       /\ OneColumn(Current)) => UNCHANGED <<tree, solutions>>
<1>1. ASSUME ShapeInv, FitInv, Next
      PROVE  Alone
  <2>1. SUFFICES ASSUME Ready, call.resolver = "itr_analyser", answered["analyser"] # "no", OneColumn(Current)
                 PROVE  UNCHANGED <<tree, solutions>>
    OBVIOUS
  <2>2. call # NoCall
    BY <2>1 DEF Ready
  <2>3. Resolve \/ UNCHANGED <<tree, solutions>>
    BY <1>1, <2>2 DEF Next, AddRelation, RemoveRelation, Visit, Descend, ResolveRaises
  <2>4. CASE Resolve
    <3> PICK s : s = Current
      OBVIOUS
    <3> PICK uid \in BOOLEAN : uid = UsesUid("itr_analyser")
      BY DEF UsesUid
    <3>1. "itr_analyser" \in Resolver
      BY DEF Resolver
    <3>2. AllSettled(uid)
      BY <1>1, <2>1, <2>2, <3>1, RunningAnswers DEF Counts
    <3>3. s \in InQuery /\ s \in Select /\ tree.subquery[s] \subseteq InQuery
      <4>1. 1 \in DOMAIN call.path
        BY <1>1, <2>2, CallFacts, LenProperties
      <4>2. call.path[1].select = s
        BY DEF Current, Innermost
      <4>3. s \in InQuery
        BY <1>1, <2>2, <4>1, <4>2 DEF FitInv, WalkInv
      <4> QED BY <1>1, <4>3, InQueryFacts
    <3>4. Settled(s, uid) /\ \A c \in tree.subquery[s] : solutions[c] # {}
      BY <3>2, <3>3 DEF AllSettled, Settled
    <3>5. CASE Names(s) = {} /\ SetNoTypes(s)
      <4>1. solutions[s] # {} /\ UNCHANGED query
        BY <2>4, <3>4 DEF Settled, Resolve
      <4> QED BY <1>1, <3>3, <3>5, <4>1, NoTypesFacts
    <3>6. CASE SetPossibleTypes(s, Solutions(s, "itr_analyser"), "itr_analyser")
      <4> PICK found : found = Solutions(s, "itr_analyser")
        OBVIOUS
      <4>1. found = PythonSolutions(s, Problem(s, "itr_analyser", uid)) /\ UNCHANGED query
        BY <1>1, <2>4, <3>1, <3>3, FoundByGecode DEF Resolve
      <4>2. SetPossibleTypes(s, found, "itr_analyser") /\ OneColumn(s)
        BY <2>1, <3>6
      <4> QED BY <1>1, <3>3, <3>4, <4>1, <4>2, ItrChangesNothing
    <3> QED BY <2>1, <2>4, <3>5, <3>6 DEF Resolve
  <2> QED BY <2>3, <2>4
<1>2. ShapeInv /\ FitInv /\ [Next]_vars => [Alone]_vars
  BY <1>1
<1> QED BY <1>2, CallsKeepTheShape, CallsKeepTheFit, PTL DEF Spec, AllSolutionsKeepSolutions

=============================================================================
