---------------------------- MODULE Preparation ----------------------------
(***************************************************************************)
(* What RQLHelper does to a SELECT between its text and its execution:     *)
(* check, annotate, simplify, and annotate again.  The last pass but one   *)
(* replaces variables known by their eid: for each it goes through the     *)
(* references it took before the loop, in the order of a Python set, which *)
(* is any order, while it removes relations and terms.                     *)
(***************************************************************************)
EXTENDS Annotator

CONSTANTS
  Queries,    \* the SELECTs to start from
  Entities,   \* the entities of the databases that the queries are answered on, as words
  Databases   \* functions from the relations to sets of pairs of entities

VARIABLES
  query,      \* the SELECT as parsed
  phase,      \* what has been done to it
  tree,       \* the tree, as the passes left it
  annotated,  \* the tree after the first annotation
  loop        \* the variables left to simplify, the references left of the first, its constant

vars == <<query, phase, tree, annotated, loop>>

Idle == [variables |-> <<>>, references |-> {}, rhs |-> 0, vconsts |-> {}]

Init ==
  /\ query \in Queries
  /\ phase = "parsed"
  /\ tree = Live(query)
  /\ annotated = tree
  /\ loop = Idle

Refuse(s) == phase' = "refused" /\ tree' = s /\ UNCHANGED <<query, annotated, loop>>

Check ==
  /\ phase = "parsed"
  /\ LET s == Checked(tree)
     IN  IF Refused(s) THEN Refuse(s)
         ELSE phase' = "checked" /\ tree' = s /\ UNCHANGED <<query, annotated, loop>>

Annotate ==
  /\ phase = "checked"
  /\ LET s == Annotated(tree)
     IN  IF s.raised THEN Refuse(s)
         ELSE phase' = "annotated" /\ tree' = s /\ annotated' = s /\ UNCHANGED <<query, loop>>

-----------------------------------------------------------------------------
\* simplify()

CanSimplify(s, name) == s.stinfo[name].constnode # 0 /\ s.stinfo[name].blocsimplification = {}

\* The loop turns to the first variable.
Turn(s, variables) ==
  IF variables = <<>> THEN Idle
  ELSE [variables |-> variables, references |-> s.stinfo[Head(variables)].references,
        rhs |-> s.stinfo[Head(variables)].uidrel, vconsts |-> {}]

StartSimplify ==
  /\ phase = "annotated"
  /\ phase' = "simplifying"
  /\ loop' = Turn(tree, SelectSeq(tree.defined_vars, LAMBDA name : CanSimplify(tree, name)))
  /\ UNCHANGED <<query, tree, annotated>>

\* The term of the statement that a reference is in.
TermOf(s, vref) == LET above == Ancestors(s, vref) IN above[Len(above) - 1]

EquivalentIn(s, n, terms) == \E term \in Range(terms) : Equivalent(s, n, term)
Without(terms, n) == SelectSeq(terms, LAMBDA term : term # n)

\* copy_uid_node: a copy of the constant, under a parent.
CopyUidNode(s, parent) == Made(s, "Constant", s.nodes[Rhs(s, loop.rhs)].what, "none", parent)
InPlaceOf(s, vref) == Replaced(CopyUidNode(s, Parent(s, vref)), Parent(s, vref), vref, Newest(s) + 1)

\* A reference in no relation.  Select.remove removes what is equivalent.
SimplifyTerm(s, vref) ==
  LET term == TermOf(s, vref)
      place(terms) == SelectInSeq(terms, LAMBDA t : Equivalent(s, term, t))
      put(clause, i) == [CopyUidNode(s, Stmt) EXCEPT ![clause][i] = Newest(s) + 1]
      group == SelectInSeq(s.groupby, LAMBDA t : t = vref)
  IN  CASE EquivalentIn(s, term, s.selection) ->
             IF vref = term THEN put("selection", place(s.selection)) ELSE InPlaceOf(s, vref)
        [] ~EquivalentIn(s, term, s.selection) /\ EquivalentIn(s, term, s.orderby) ->
             [Unregistered(s, VariableRefs(s, term)) EXCEPT !.orderby = Without(@, term)]
        [] OTHER ->
             IF s.having # <<>> THEN put("groupby", group)
             ELSE [Unregistered(s, VariableRefs(s, term)) EXCEPT !.groupby = RemoveAt(@, place(@))]

\* What the code looks for is there: the relation of the constant, the term to remove or replace.
Raises(s, vref) ==
  \/ loop.rhs = 0
  \/ /\ RelationOf(s, vref) = 0
     /\ ~EquivalentIn(s, TermOf(s, vref), s.selection \o s.orderby)
     /\ IF s.having = <<>> THEN ~EquivalentIn(s, TermOf(s, vref), s.groupby) ELSE vref \notin Range(s.groupby)

SimplifyReference(vref) ==
  LET r == RelationOf(tree, vref)
      name == Head(loop.variables)
  IN  /\ vref \in loop.references
      /\ ~Raises(tree, vref)
      /\ tree' = CASE r = 0 -> SimplifyTerm(tree, vref)
                   [] r # 0 /\ r = loop.rhs -> Removed(tree, Parent(tree, r), r)
                   [] r # 0 /\ r # loop.rhs /\ IsTypesRestriction(tree, r) ->
                        Removed([tree EXCEPT !.stinfo[name].typerel = 0], Parent(tree, r), r)
                   [] OTHER -> InPlaceOf(tree, vref)
      /\ loop' = [loop EXCEPT !.references = @ \ {vref},
                              !.vconsts = @ \cup ((Newest(tree) + 1)..Newest(tree'))]
      /\ UNCHANGED <<query, phase, annotated>>

SimplifyRaises ==
  /\ \E vref \in loop.references : Raises(tree, vref)
  /\ phase' = "raised"
  /\ UNCHANGED <<query, tree, annotated, loop>>

\* The variable is undefined; select.stinfo['rewritten'] keeps its constants.
EndVariable ==
  /\ loop.variables # <<>> /\ loop.references = {}
  /\ tree' = [tree EXCEPT !.defined_vars = Without(@, Head(loop.variables)),
                          !.stinfo[Head(loop.variables)].uidrel = 0]
  /\ loop' = Turn(tree, Tail(loop.variables))
  /\ UNCHANGED <<query, phase, annotated>>

EndSimplify ==
  /\ phase = "simplifying" /\ loop = Idle
  /\ phase' = "simplified"
  /\ UNCHANGED <<query, tree, annotated, loop>>

\* The tree is annotated again before it is made SQL.
AnnotateAgain ==
  /\ phase = "simplified"
  /\ tree' = Annotated(tree)
  /\ phase' = IF tree'.raised THEN "refused" ELSE "ready"
  /\ UNCHANGED <<query, annotated, loop>>

Next ==
  \/ Check
  \/ Annotate
  \/ StartSimplify
  \/ phase = "simplifying" /\ (\/ \E vref \in loop.references : SimplifyReference(vref)
                               \/ SimplifyRaises
                               \/ EndVariable
                               \/ EndSimplify)
  \/ AnnotateAgain

Spec == Init /\ [][Next]_vars

-----------------------------------------------------------------------------
\* What the passes must do.

Phase == {"parsed", "checked", "annotated", "simplifying", "simplified", "ready", "refused", "raised"}
Done == phase \in {"annotated", "simplified", "ready"}
Alive == Below(tree, Stmt) \ {Stmt}
Of_(class) == {n \in Alive : Of(tree, n) = class}
Relations == Of_("Relation")

TypeOK ==
  /\ phase \in Phase
  /\ \A n \in 1..Newest(tree) : Parent(tree, n) \in 0..Newest(tree) /\ Range(ChildrenOf(tree, n)) \subseteq 1..Newest(tree)
  /\ Range(tree.defined_vars) \subseteq DOMAIN tree.stinfo
  /\ loop.references # {} => loop.variables # <<>>
  /\ loop.variables # <<>> => phase \in {"simplifying", "raised"}

\* After each pass the tree is a tree: a node has one parent, which knows it, and the
\* references of a variable are its occurrences, each of a variable of the statement.
TreeIsSound ==
  /\ TypeOK
  /\ phase \in {"parsed", "checked"} \/ Done =>
    /\ \A n \in Alive \cup {Stmt} : \A kid \in Range(ChildrenOf(tree, n)) :
         Parent(tree, kid) = n /\ Quantify(DOMAIN ChildrenOf(tree, n), LAMBDA i : ChildrenOf(tree, n)[i] = kid) = 1
    /\ VariablesBelow(tree, Stmt) \subseteq Range(tree.defined_vars)
    /\ \A name \in Range(tree.defined_vars) :
         tree.stinfo[name].references = {n \in VariableRefs(tree, Stmt) : Variable(tree, n) = name}

\* Where a variable is used: selected, or in a relation that is no type restriction.
Uses(name) ==
  {r \in Relations : ~IsTypesRestriction(tree, r) /\ name \in VariablesBelow(tree, r)}
Places(name) ==
  {ScopeOf(tree, r) : r \in Uses(name)}
    \cup {Stmt : term \in {t \in Range(tree.selection) : name \in VariablesBelow(tree, t)}}
Enclosing(n) == {m \in Range(Ancestors(tree, n)) : IsScope(tree, m)}

\* The innermost scope that holds all the places, which the annotator finds place by place.
InnermostScope(name) ==
  LET common == {m \in Alive \cup {Stmt} : \A place \in Places(name) : m \in Enclosing(place)}
  IN  IF Places(name) = {} THEN {} ELSE {m \in common : \A k \in common : k \in Enclosing(m)}

\* What is known of a variable is true of the tree, of the parts that the annotation or
\* the simplification have rewritten as well.
AnnotationIsCurrent ==
  Done => \A name \in Range(tree.defined_vars) :
    LET known == tree.stinfo[name]
    IN  /\ phase # "simplified" => known.scope = InnermostScope(name)
        /\ known.relations = Uses(name)
        /\ known.rhsrelations = {r \in Uses(name) : name \in VariablesBelow(tree, tree.nodes[r].kids[2])}
        /\ known.optrelations \subseteq {r \in Uses(name) : tree.nodes[r].optional # "none"}
        /\ {known.typerel, known.uidrel} \subseteq {0} \cup {r \in Relations : Variable(tree, Lhs(tree, r)) = name}

Known(s, name) == [s.stinfo[name] EXCEPT !.having = <<>>,
                                         !.constnode = IF s.stinfo[name].uidrel = 0 THEN 0 ELSE @]

\* The attributes that a variable is the value of, as the tree has them.
Attributes(s, name) ==
  {<<Owner(s, r), s.nodes[r].what>> :
     r \in {rel \in s.stinfo[name].rhsrelations :
              s.nodes[rel].what \in Final /\ IsVariable(s, Rhs(s, rel)) /\ Variable(s, Rhs(s, rel)) = name}}

\* A rewriting leaves behind the attributes that go to another variable or subject, and an
\* annotation forgets none of those it finds.
Same(name) ==
  LET first == annotated.stinfo[name]
      again == tree'.stinfo[name]
      current == first.attrvars = Attributes(annotated, name)
  IN  /\ again.attrvars = first.attrvars \cup Attributes(tree', name)
      /\ current => again.attrvar = first.attrvar
      /\ \A field \in DOMAIN first \ {"attrvar", "attrvars"} :
           Known(tree', name)[field] = Known(annotated, name)[field]

\* The second annotation rewrites nothing more, and where nothing was simplified it finds
\* the same, but for the constant of a variable whose eid relation went to another one
\* and for the attributes that a rewriting took away: it adds those that the first one has
\* missed and keeps those that are no more.
AnnotationIsStable ==
  [][phase' = "ready" =>
       /\ tree'.nodes = tree.nodes
       /\ tree.nodes = annotated.nodes => \A name \in Range(tree.defined_vars) : Same(name)]_vars

\* A relation left bare under a NOT because it is inlined has a subject that is used
\* elsewhere, types aside, once the whole tree is checked.
BareSubjectsAreShared ==
  phase \in {"checked", "annotated"} => \A n \in Of_("Not") :
    LET r == tree.nodes[n].kids[1]
        elsewhere == {m \in VariableRefs(tree, Stmt) \ {Lhs(tree, r)} :
                        /\ Variable(tree, m) = Variable(tree, Lhs(tree, r))
                        /\ RelationOf(tree, m) = 0 \/ ~IsTypesRestriction(tree, RelationOf(tree, m))}
    IN  (Of(tree, r) = "Relation" /\ tree.nodes[r].what \in Inlined) => elsewhere # {}

\* A variable that an EXISTS uses in an outer join and shares with the statement is
\* rewritten to one of its own, if what shares it comes first.
OptionalsAreLocal ==
  phase = "annotated" => \A r \in Relations :
    (tree.nodes[r].optional # "none" /\ ScopeOf(tree, r) # Stmt) =>
      \A name \in VariablesBelow(tree, r) : \A use \in Uses(name) :
        ScopeOf(tree, use) = Stmt => use > ScopeOf(tree, r)

-----------------------------------------------------------------------------
\* The answers to a query, each variable ranging over the entities at its scope.

ScopedAt(s, n) ==
  {name \in Range(s.defined_vars) : s.stinfo[name].scope = {n} \/ (s.stinfo[name].scope = {} /\ n = Stmt)}

RECURSIVE ValueOf(_, _, _)
ValueOf(s, env, n) ==
  CASE Of(s, n) = "VariableRef" -> env[Variable(s, n)]
    [] Of(s, n) = "Function" -> <<s.nodes[n].what, [i \in DOMAIN s.nodes[n].kids |-> ValueOf(s, env, s.nodes[n].kids[i])]>>
    [] OTHER -> s.nodes[n].what

RECURSIVE Holds(_, _, _, _)
Holds(s, db, env, n) ==
  LET kid(i) == Holds(s, db, env, s.nodes[n].kids[i])
      objects(o) == IF Of(s, o) = "Function" THEN {ValueOf(s, env, k) : k \in Range(s.nodes[o].kids)}
                    ELSE {ValueOf(s, env, o)}
  IN  CASE Of(s, n) = "And" -> kid(1) /\ kid(2)
        [] Of(s, n) = "Or"  -> kid(1) \/ kid(2)
        [] Of(s, n) = "Not" -> ~kid(1)
        [] Of(s, n) = "Exists" ->
             \E inner \in [ScopedAt(s, n) -> Entities] : Holds(s, db, inner @@ env, s.nodes[n].kids[1])
        [] Of(s, n) = "Relation" ->
             \/ IsTypesRestriction(s, n)
             \/ \E o \in objects(Rhs(s, n)) : <<ValueOf(s, env, Lhs(s, n)), o>> \in db[s.nodes[n].what]

Envs(s, db) == {env \in [ScopedAt(s, Stmt) -> Entities] : \A n \in Range(s.where) : Holds(s, db, env, n)}
Row(s, env) == [i \in DOMAIN s.selection |-> ValueOf(s, env, s.selection[i])]
Answers(s, db) == {Row(s, env) : env \in Envs(s, db)}

Inner(s) == \A n \in Below(s, Stmt) \ {Stmt} : s.nodes[n].optional = "none"

\* Nothing negates or alternates, within the scope of the variable, its eid relation and
\* its type restrictions, which the simplification removes.
UidIsCertain(s) ==
  \A name \in {v \in Range(s.defined_vars) : CanSimplify(s, v)} :
    LET u == s.stinfo[name].uidrel
        types == {r \in {RelationOf(s, vref) : vref \in s.stinfo[name].references} \ {0} : IsTypesRestriction(s, r)}
        within == {n \in UNION {Range(Ancestors(s, r)) : r \in {u} \cup types} \ {Stmt} :
                     s.stinfo[name].scope \cap Enclosing(n) # {}}
    IN  u # 0 /\ \A n \in within : Of(s, n) \notin {"Or", "Not"}

\* A simplified query has the answers of the query, in whatever order the references were
\* replaced; entities that an eid names exist.
SimplifyKeepsAnswers ==
  (phase = "simplified" /\ Inner(annotated) /\ UidIsCertain(annotated)) =>
    \A db \in Databases : Answers(tree, db) = Answers(annotated, db)

\* The same, whatever is above the eid relation.
SimplifyAlwaysKeepsAnswers ==
  (phase = "simplified" /\ Inner(annotated)) =>
    \A db \in Databases : Answers(tree, db) = Answers(annotated, db)

\* Simplifying does not raise, unless there is a HAVING clause, or the rewriting for an outer join
\* took the eid relation of the variable.
SimplifyFinishes ==
  phase = "raised" => annotated.having # <<>> \/ (loop.rhs = 0 /\ ~Inner(annotated))

\* A sort on the subject of an attribute whose value is selected, or found from what is.
\* An attribute has one subject per value in the schema, where many may have the same.
SortsBackOverAttribute(s) ==
  LET names(terms) == UNION {VariablesBelow(s, term) : term \in Range(terms)}
  IN  \E r \in Relations :
        /\ s.nodes[r].what \in Final
        /\ Variable(s, Lhs(s, r)) \in names(s.orderby) \ names(s.selection)
        /\ Variable(s, Rhs(s, r)) \in names(s.selection) \cup UNION {VariablesBelow(s, q) : q \in Relations \ {r}}

\* A query that is accepted with DISTINCT and a sort on what is not selected sorts each row
\* on one value, when its restriction is a conjunction and no attribute is gone back over.
SortIsOneValue ==
  LET conjunctive == \A n \in Alive : Of(tree, n) \notin {"Or", "Not", "Exists", "Function"}
      value(env) == [i \in DOMAIN tree.orderby |-> ValueOf(tree, env, tree.nodes[tree.orderby[i]].kids[1])]
  IN  (phase = "annotated" /\ tree.distinct /\ tree.orderby # <<>> /\ conjunctive /\ Inner(tree)
         /\ ~SortsBackOverAttribute(tree)) =>
        \A db \in Databases : \A e1, e2 \in Envs(tree, db) :
          Row(tree, e1) = Row(tree, e2) => value(e1) = value(e2)
=============================================================================
