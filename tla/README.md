# A verification development for RQL

RQL is a query language over entities and relations. The library parses a query
into a syntax tree, checks and annotates the tree against a schema, computes the
entity types its variables may have, and lets its users edit the tree and take
edits back. This directory holds TLA+ models of that code, the TLC configurations
that check them on small instances, and proofs that TLAPS checks. Paths below are
those of the repository, under `src/`.

- [Inventory](#inventory): the parts of the system, their state, what is hard
- [Plan](#plan): what is done, what comes next, in which order
- [Modules](#modules): how each module corresponds to the code
- [Runs](#runs): what each run checks, its bounds, the fairness it assumes
- [Proofs](#proofs): what is proved, from what, along which argument
- [Findings](#findings): where code and documentation disagree
- [Not modelled](#not-modelled)

## Inventory

| part | source | state | operations |
|---|---|---|---|
| undo log | `rql/undo.py`, `Union.save_state`, `recover`, `should_register_op` in `rql/stmts.py` | `op_list`, `_selection`, `state_stack`; `memorizing` and `undoing` of the union | `save_state`, `recover`, `add_operation`, `flush`, `undo` of each operation |
| attribute setters | `Select.set_distinct`, `set_limit`, `set_offset` (`rql/stmts.py`), `Relation.change_optional` (`rql/nodes.py`) | `distinct`, `limit`, `offset`, `optional` | the setters, `ChangeValueOperation.undo` |
| restrictions of a SELECT | `EditableMixIn` and the nodes of `rql/nodes.py`, `rql/base.py`, `Select.replace`, `remove` | `where`, `children`, `parent`, references | `add_restriction`, `add_relation`, `remove_node`, `replace`, `remove` |
| clauses and variables of a SELECT | `Select` in `rql/stmts.py` | `selection`, `groupby`, `orderby`, `having`, `defined_vars`, `solutions`, `stinfo['references']` | `add_selected`, `add_group_var`, `add_sort_term`, `set_having`, `make_variable`, `undefine_variable`, their removals |
| helper shared by threads | `RQLHelper` in `rql/__init__.py`, `ETypeResolver` in `rql/analyze.py` | the schema in four objects, `uid_func_mapping`, `kwargs`, two locks | `parse`, `set_schema`, `compute_solutions`, `compute_all_solutions` |
| union of SELECTs | `Union` in `rql/stmts.py` | `children`, their parents, the cache of `_locate_subquery` | `append_select`, `remove_select`, `wrap_selects`, `locate_subquery` |
| type resolver | `rql/analyze.py`, `rql/gecode_solver.cpp` | constraints on domains, solutions | `visit`, the handlers of the nodes, `solve` of two back-ends |
| checker | `RQLSTChecker` in `rql/stcheck.py` | the tree, which it rewrites; a list of errors | `check`, `visit_*`, `leave_*` |
| annotator | `RQLSTAnnotator` in `rql/stcheck.py` | `stinfo` of the variables, `scope`, `sqlscope` | `annotate`, `rewrite_shared_optional` |
| simplifier | `RQLHelper.simplify`, `_simplify` | the tree | `simplify` |
| variable names | `rqlvar_maker`, `decompose_b26` in `rql/utils.py` | the position of a generator | `next` |
| copies | `copy` of statements and nodes | two trees | `copy` |
| DELETE, INSERT, SET | `rql/stmts.py` | lists of variables and relations | `add_main_variable`, `add_main_relation` |
| parser | `rql/parser.g`, the generated `rql/parser.py` | none between calls | `Goal` |
| query text | `as_string` of `rql/nodes.py`, `rql/stmts.py` | none | `as_string` |
| others | `rqlgen.py`, `compare.py`, `editextensions.py`, `pygments_ext.py`, tools, packaging | none of their own | |

**How they interact.** `RQLHelper.parse` calls the parser, then the checker, then
the annotator, all on one tree. `compute_solutions` gives the tree to a resolver
under that resolver's lock; the solutions are stored in the SELECTs. Every editing
method asks `should_register_op` of its root (the union) whether to record, and
hands an operation to the `undo_manager` of the union; `recover()` calls `undo()`
of these operations, which call editing methods again with `undoing` set, so that
they record nothing. The references of a variable are shared state of all editing
methods: each one registers or unregisters them.

**What is hard, and what correct means.**

- *Undo log.* Saves nest, and one list of operations serves all of them through
  positions in it. It is correct when `recover()` gives back the tree of the
  `save_state()` it answers, whatever was edited, saved and recovered between; when
  undoing never raises; when edits are recorded exactly while a save is pending.
- *Editing methods.* Each must leave a tree that `check_references` accepts and
  record what undoes it exactly: same nodes, same places, same references. Removing
  a node restructures the tree above it; `undefine_variable` and `remove_node` make
  several recorded edits and can fail between two of them.
- *Helper.* A resolver is a bag of attributes that one visit at a time may use, and
  the schema is assigned to several objects, one after the other, with no lock. It
  is correct when no visit sees another's arguments, when a lock is always released,
  and when calls see one schema.
- *Type resolver.* Two back-ends must agree. A call resolves subqueries first, and the
  types of an alias then narrow the subquery whose solutions gave them: what is kept in
  every SELECT must still be right and complete after that, after calls that failed
  half-way, and after edits.
- *Checker, annotator, simplifier.* They rewrite the tree they walk, and walk lists
  taken before the rewriting. What is noted of a variable must still be true of the tree
  that the rewriting left, and a simplified query must have the answers of the query.
- *Union.* Moving SELECTs under a subquery changes which union records the edits.
- *Parser, text, copies.* Priorities are in the nesting of the rules only, and the text
  writes parentheses by the class of a node. A name may be read before the WITH that makes
  it an alias, and a copy meets names in another order than the parser.

`PROJECT.json` lists the hazards at their lines, with the properties about each.

## Plan

Done, in this order, the most important first:

1. `SelectionManager`, `UndoHistory`, `Snapshots`: the undo log, what it promises,
   and that it keeps the promise; `UndoHistory_proofs`.
2. `ScalarEdits`: the simplest client of the log; `ScalarEdits_proofs`.
3. `RestrictionTree`: the WHERE clause as a tree, over the log; `RestrictionTree_proofs`.
4. `SelectClauses`: the other clauses and the variables, over the log;
   `SelectClauses_proofs`.
5. `Helper`: threads, locks and schemas; `Helper_proofs`.
6. `TypeResolver`: constraints, the two back-ends, and the narrowing of subqueries;
   `TypeResolver_proofs`.
7. `Syntax`, `Parser`: the grammar read word by word, the text of a tree, its copies;
   DELETE, INSERT and SET as far as they have behaviour.
8. `LiveTree`, `Checker`, `Annotator`, `Preparation`: the passes from the text of a SELECT
   to its simplified and annotated tree.
9. `UnionTree`: the SELECTs of a union and of its subqueries, over the log;
   `UnionTree_proofs`.

Next:

10. Subqueries and unions of several SELECTs in the checker, the annotator and the
    simplifier (`leave_subquery`, `clean_solutions`), over the trees of `Parser`.
11. `add_type_restriction` on an edited tree, over `RestrictionTree`.

`Basics_proofs` holds what the proofs of steps 3, 4 and 9 share. Modules that are proved about
declare no RECURSIVE operator: the walks over a tree are recursive functions (`Subtree`,
`Lifted`, `ScopeOf` in `RestrictionTree`; `SelectsBelow`, `Locate`, `Rows` in `UnionTree`). The modules
of steps 7 and 8 are for TLC only; they walk trees of any depth with RECURSIVE operators.

## Modules

### SelectionManager, UndoHistory, Snapshots

`SelectionManager` is the class of that name and the three methods of `Union` that
drive it. The manager looks neither into the tree nor into the operations, so both
are constants: `Tree`, `Op`, `Edits(t, op, u)` (an editing method may turn `t` into
`u` and record `op`), `Undone(op, t)` and `Raises(op, t)`. The modules of the editing
methods instantiate it with theirs.

| code | model |
|---|---|
| `op_list`, latest first; `state_stack` | `op_list`, `state_stack` |
| `memorizing`, `undoing` of the union | `memorizing`, `undoing` |
| the loop of `recover()` | `remaining`: how many turns are left |
| `op_list[:-last] or op_list[:]` | `RecoverCount(last, len)`, with both ways for the slice to be empty |
| `save_state`, `recover`, `flush` | `SaveState`, `Recover`, `Flush` |
| `recover()` with no save: the counter goes down, then the assertion fails | `RecoverRefused` |
| one turn of the loop; an exception in it | `Undo`; `UndoRaises`, which loses the operation and leaves `undoing` set |

`memorizing` may be negative after refused recovers; any value but zero is true, as
in Python. `MaxOps`, `MaxSaves` and `MaxUnbalanced` bound the log, the nesting and
the refused recovers.

`UndoHistory` adds history variables: `saved` (the tree at each pending save),
`target` (what the recover that runs, or has just ended, owes), `trail` (the tree
before each recorded edit) and `intact`. A log is *intact* until a `recover()` finds
nothing recorded since its save but older operations (`Overshoots`, see the
findings), or is refused, or `flush()` drops operations. The promises are stated of
intact logs, and one run shows what happens to the others.

`Snapshots` is what a client believes: a stack of whole copies of the tree.
`ImplementsSnapshots` says that the log implements it, through
`tree <- Promised`: while `recover()` runs, the tree that it owes.

### ScalarEdits

One action per setter. A tree is the four attributes of every SELECT and relation. A
setter given the current value does nothing; `set_limit` and `set_offset` refuse bad
values before they record. `change_optional` records on one test
(`value != self.optional`) and `set_optional` assigns on another: a second side makes
the join `"both"`, and `None` changes nothing although it is recorded. The same
happens when `set_optional` raises on `"both"`: the operation is recorded, the
attribute is as before.

### RestrictionTree

The nodes of the WHERE clause with children *and* parents, kept apart as in the code:
`parent` can be wrong, and the code reads it. A relation stands for everything under
it. `replace` and `remove` are translated per class (`Replaced`, `Removed`): `Select`
clears the parent of the replaced node and other nodes do not; `Not` and `Exists` pass
the removal of their child on to their own parent (`Lifted`); a binary node goes with
the removed child and its other child takes its place. `remove()` on a stale parent
raises after the references have been unregistered (`RemoveNodeRaises`). The three
operations undo as in `undo.py`, with the reparenting of `RemoveNodeOperation.undo`
as it is written (`UndoRemoveNode`).

Objects are identities. Python's collector is what makes identities reusable: an
object that neither the tree nor the log refers to is free, and `Collected` forgets
its fields. `Edits` compares what `recover()` must give back (`Restriction`: nodes
where they were, registered references); parents have their own property.
`astray` remembers that `remove_node` has followed a wrong parent: that of the node it was
given, or of a Not or Exists above it that leaves in its stead (`FollowsWrongParent`).

### SelectClauses

Selection, GROUPBY, ORDERBY, HAVING as sequences of references; the relations as a
set; `defined_vars`, the variables bound in `solutions`, and the references that
variables know of. A term is its only reference, bare or inside a function
(`Wrapped`): that is what `is_equivalent` and the branches of `undefine_variable` tell
apart.

Methods that make several recorded edits (`undefine_variable`,
`remove_node(undefine=True)`, `remove_sort_terms`, `remove_groups`, `remove_node` on a
term) are loops: they put their calls in `agenda`, and each call is one step. The
references that `undefine_variable` goes through are taken before its loop, in any
order (a set in Python), so by the time of a turn the node may have left: `DropFails`
is the exception, which ends the method with its first edits made. `strayed` remembers
three kinds of calls that the code does not take back well, listed under findings.

### TypeResolver

One query, its relations and its subqueries. A call is a walk (`call.path`: the SELECTs
that it is in, the innermost first, each with the place in its subquery that comes next); a
step enters a SELECT of a subquery (`Descend`), or resolves one whose subquery has been
visited (`visit_select` after its loop, with the `set_possible_types` that ends it) and
goes on to the next. Between calls a client adds and removes relations.

| code | model |
|---|---|
| the relations of a WHERE clause | `tree.where`, a set: `visit_and`, `visit_or` and `visit_exists` do nothing, so every relation constrains, also under an OR |
| the SELECTs of the subquery | `tree.subquery`; at most one subquery per SELECT |
| `solutions`, `stinfo['possibletypes']`, `stinfo['allpossibletypes']` | `solutions`, `types` |
| `uid_func_mapping` | `mapping`: empty, given, or reset to `None` |
| `visit_relation`, `visit_type_restriction` | `Constraints`, one `CASE` arm per branch |
| `ConstraintCSPProblem`, `GecodeCSPProblem` | `PythonAccepts`; `GecodeAccepts` with its numbered values and `GecodeRaises` for the `KeyError` of a value that has no number |
| `set_possible_types` | `SetPossibleTypes`: what is found, then `Kept` solutions of the subquery |
| an exception | `ResolveRaises`: nothing of the earlier SELECTs is taken back, the mapping stays |

A constant stands for its type: what the uid function answers. The search of the two
libraries is "all assignments that satisfy the constraints". Properties are stated of
the answer to the present tree (`answered`: until an edit, the next call of
`compute_solutions`, or one of `compute_all_solutions` with a mapping where `compute_solutions`
had none, or the reverse, which may narrow the subqueries for answers of its own), against a definition of a solution that
does not go through constraints (`Fits`). They are stated of subqueries with one
column (`OneColumn`): with several, each alias narrows on its own, and a SELECT removed
for the types of one may be the only one that gives another alias one of its types, so
an alias can keep a type that no column has any more. Two more things the model shows
and no document speaks of: variables selected with no restriction have one type
between them (`vars_have_same_types`), and a resolver that was given a mapping once
raises on the next relation that is not a type restriction when it is called with none
(`MappingRaises`). A removed SELECT is not recorded by the log of the query: the
subquery is a union with a log of its own, which records nothing.

### Helper

Threads call `parse`, `compute_solutions`, `compute_all_solutions` and `set_schema` of
one helper. A step is one access to shared state: one attribute that `set_schema`
assigns (`SetOrder`), one schema that `parse` reads (`ParseOrder`), the acquisition of
a lock, the attributes that `visit()` sets, one read by a handler, the end of the visit
with its reset, or its exception without (`Raise`). What a visit computes is left
out (`TypeResolver` has it). `changes`, `overlapped`, `raced` and `raised` are history.

### Syntax, Parser

`Syntax` has the trees that the parser makes: a node is a record of its class, what it
carries and its children; a statement is a record of its clauses and of the names it
knows (`defined_vars`, `aliases`, `references`). `Text` is `as_string()`, as a sequence of
words; `Copy` is `copy()` of every class.

`Parser` is `parser.py`. A function of the parser is a sequence of instructions (scan,
peek and branch, loop, call, act), and `Step` runs one. This is the code with its actions,
and not the grammar: which token types a peek allows decides what a word is
(the scanner of yapps takes the longest match among the patterns allowed, the first of the
longest ones), so the sets of tokens written out in the generated code are in the model.
One space matters: the pattern of `FUNCTION` takes the spaces before a parenthesis, so that
where a function may be called `NOT (` is a call of `NOT`, and `NOT(` is the keyword. A word of
letters and the `(` after it are therefore read in one step, with the space or without
(`Types`, `ReadWords`), and `Text` keeps the space where `as_string` writes one.

| code | model |
|---|---|
| the Python stack of the parser | `parser.todo`, what is left to do |
| its local variables, the statements it builds | `parser.values`, `parser.statements` |
| the token that `_peek` has fixed | `parser.word`, `parser.token` |
| an action in braces of `parser.g` | `Do`, one `CASE` arm each |
| `RQLSyntaxError`, `BadRQLQuery`, `AssertionError`, `NameError` | `parser.status` |

The last one is real: `expr_pow` names its operator `MUL_OP`, which is not defined there,
so that every text with a `^` raises `NameError`. Words are otherwise separated by spaces;
comments and the case of keywords and functions are left out. A word is one lexeme: where
only its beginning is an allowed token (`Any` where only a VARIABLE may come: `A`, then `ny`)
the scanner would cut it, and the model refuses the text.

### LiveTree, Checker, Annotator, Preparation

What `RQLHelper` does to a SELECT between its text and its execution. `LiveTree` is the tree
that these passes share: nodes that know their parent, a `stinfo` per variable, and the
operations on both (`Made`, `Replaced`, `Removed`, `Ored`, `CommonParent`). A node is a
number. A node that a pass takes out of the tree keeps its number, since what refers to it
still does.

| code | model |
|---|---|
| `RQLSTChecker._visit`, its restart on `GoTo`, the loop over a list that changes | `Visit`, `VisitKids`, the field `goto` |
| `visit_relation`, `visit_or`, `leave_not`, `visit_function`, `leave_select`... | `VisitRelation`, `VisitOr`, `LeaveNot`, `VisitFunction`, `LeaveSelect`... |
| `has_unique_value_path` and the `has_path` of logilab | `HasUniqueValuePath`, `HasPath` (external) |
| `RQLSTAnnotator.visit_relation` and `rewrite_shared_optional`, which call each other | `AnnotateRelation`, `RewriteSharedOptional` |
| `_set_scope`, `update_attrvars`, `bloc_simplification` | `SetScope`, `UpdateAttrvars`, `BlocSimplification` |
| `make_variable`, `rqlvar_maker` | `MadeVariable` |
| `RQLHelper._simplify`: variables, then their references in the order of a Python set | `StartSimplify`, `SimplifyReference` (any order), `SimplifyRaises`, `EndVariable`, `EndSimplify` |

`Checked` and `Annotated` are one call each, hence one step; simplifying takes one step per
reference, because that is the loop whose order is not determined. The schema is three sets
of relations and the cardinalities.

### UnionTree

SELECTs and unions are numbers, in the order in which they are made; the first union is the
root, the only one that is saved and recovered. A SELECT is its parent, limit, offset,
subquery and the types of its only column. An editing method is the operations that it records,
each with the tree before it, and the tree that it makes; it is silent if it changes a SELECT
that has no log to record into (`Perform`).

| code | model |
|---|---|
| `append_select`, `remove_select` and their undo operations | `Appended`, `Removed`; `Unappended`, `Unremoved` |
| `wrap_selects`: each SELECT removed and appended to a new union (`Moved`, after k of them), then a SELECT on it appended | `Wrapped` |
| `Union.set_limit`, `set_offset`: the wrapping, then the check of the value | `SetOnRoot` |
| `should_register_op` of a SELECT, through its parent | `Registers` |
| `set_possible_types`, which removes SELECTs of the subquery | `Narrowed`, `Filtered`, `SetPossibleTypes` |
| `_locate_subquery` | `Locate` |

`append_select` does not tell the SELECT of its parent. So after a limit has wrapped a
union, what is edited in the new SELECT, and in those that moved below it, is recorded by no
saved log: `stray` remembers that this was done to a SELECT that a save answers for.

## Runs

| run | expected | question |
|---|---|---|
| `undo_log` | pass | Do all promises of an intact log hold for the most demanding edits? |
| `undo_refines` | pass | Is an intact log a stack of snapshots? |
| `undo_overshoot` | violation | Does `recover()` always give back the tree of its save? |
| `scalar_edits` | pass | Do the setters restore and record? |
| `restriction_tree` | pass | Are trees, references and scopes right after edits and undos? |
| `select_clauses` | pass | Is a SELECT sound between calls, and restored by `recover()`? |
| `type_resolver` | pass | Are the solutions of every SELECT right and complete after any sequence of calls and edits? |
| `helper` | pass | Do threads keep apart, and do locks get released? |
| `parser` | pass | Does a text become the tree that the priorities say, and come back from it? |
| `preparation` | pass | Are trees and annotations right after every pass, and does a simplified query keep its answers? |
| `preparation_ored` | violation | Does it, whatever is above the eid relation? |
| `union_tree` | pass | Is a union recovered, bounded and searched right, wherever its SELECTs were moved? |

**undo_log.** Three trees and every pair of them as an edit; an operation remembers
the tree it leads from and to, and its undo raises on any other tree, so undoing too
much, too little or out of order shows at once. Three operations, three nested saves
and one refused recover: the slice of `recover()` tells a mark of zero, a mark inside
the list and a mark at its end apart, so two marks in one list of two operations give
each case. `LogInv` is the inductive invariant of the proofs. `RecoverEnds` is under
`WF(Undo \/ UndoRaises)`: `recover()` is a loop of the calling thread, which goes on
once it has started. No fairness is assumed of the client.

**undo_refines.** Under `DisciplinedSpec`, a client that takes no step which breaks
the log. Such a client stops once it has reached the bounds and its next recover would
overshoot; hence `CHECK_DEADLOCK FALSE` here and in `restriction_tree` and
`select_clauses`, which use the same client.

**scalar_edits.** One SELECT and one relation, from every combination of parsed
values; the arguments include refused ones (`MCScalarEdits`). Attributes do not
interact, and operations on different nodes commute, so one node of each class with
two recorded operations per log and two nested saves shows every pair.

**restriction_tree.** Five parsed clauses: a conjunction; an EXISTS over a
conjunction beside a relation; a negated disjunction; an EXISTS over a conjunction of a
negation and a relation, where a removal that passes through the NOT may meet a wrong parent
above it; none. Three relations, three
binary nodes, three recorded operations, one save: an addition over a removal over a
removal is the shortest log in which a reparented child is removed in turn. Nesting
is `undo_log`'s question. Relations and binary nodes are symmetric: parsed trees are the only values that
name them, and where a fresh one is chosen the others are indistinguishable from it;
the properties of this run name none. `TreeIsSound` and `UndoIsExact` are the
conjunctions of what makes a tree sound and an undo exact (`TypeOK`, `TreeIsATree`,
`ReferencesMatchTree`, `ParentsLeadToScope`; `RecoverRestoresRestriction`,
`UndoNeverRaises`). `RemoveIsExact`, the references and what `recover()` gives back are stated
`~astray`: of clients whose `remove_node` has followed no wrong parent. That parents
lead to the scope, and that no undo raises, holds of the others as well.

**select_clauses.** Two variables, six references (two of them inside functions), two
parsed queries: `Any X GROUPBY X WHERE X r Y` and `Any Y ORDERBY X WHERE X r X`. Four
recorded operations in one save reach every loop with an edit before it.
`SavingSpec` lets a client make one call before its save only: what further calls do
to the tree first would only amount to more parsed queries. `OneStray` stops at the
second kind of call that is not taken back well, and a client that has strayed saves
no more; the pass run states its properties of clients that have not strayed (or, for
`recover()`, have only called `set_having` twice, which is taken back).

**type_resolver.** Five types (one final, one that specializes another), five
relations, nine queries: one SELECT with constants, negations, specializations and
uids; subqueries of two SELECTs with one column, with a constant for a column, with a uid
given of the alias, with two columns; a subquery of a subquery; a union of two SELECTs. At most three edits each, in any order and number
between calls of the two resolvers with and without a mapping. The second level
of subqueries shows that a narrowing stops one level down; the queries whose edits
contradict a subquery reach failed calls and removed SELECTs.

**helper.** Two threads, two accepted schemas and a refused one, one mapping besides
the constructor's, two reads per visit, two calls of `set_schema`: with two reads a
visit can see two schemas. `NoRace` stops when two `set_schema` overlap, of which
nothing is promised. `LocksAreReleased` is under weak fairness of each thread's
`Proceed`: the interpreter lets each thread that can run go on, and a visit is
finite. Nothing is assumed of the order in which a lock is given, nor that a call is
ever made.

**parser.** Ten beginnings, each with the words that may follow it (from a conjunction, an
EXISTS, outer joins, terms, HAVING, the clauses of a SELECT, WITH, to the statements that change
data), read word by word to lengths of 8 to 16 words, each with the words of letters that a `(`
may follow, touching them or not. At these lengths every pair of
operators meets in both orders and, where the language has them, within parentheses. `RoundTrip` is stated of what
`as_string` can write (`Writable`: see the findings). `FollowsPriorities` compares the tree with a
grouping of the words alone, by the list of priorities of `doc/specifications_en.txt`.
A text ends, hence `CHECK_DEADLOCK FALSE`, as in `preparation`, where passes end.

**preparation.** 3,080 SELECTs: all conjunctions of two relations, negated or in
an EXISTS; pairs under AND, OR, NOT and EXISTS beside a third relation; outer joins in
and out of an EXISTS; selections, groupings, sorts and HAVING with an eid; DISTINCT with sorts
on what is not selected, entities or values. The cardinality of final relations is the `?1` of the schema
of the tests (`test/unittest_analyze.py:47-49`). Relations are one of each kind that the code tells apart (final,
inlined, symmetric, eid, type). Answers are compared on every relation over two entities, from
which the inlined and final ones are derived: with two entities a variable that an eid names
and one that it does not can differ. `SimplifyKeepsAnswers` is stated of inner joins and of
eid relations that nothing negates or alternates (`UidIsCertain`); `preparation_ored` shows why.
`SortIsOneValue` is stated of sorts that do not go back over an attribute
(`SortsBackOverAttribute`: see the findings). `AnnotationIsStable` says of the attributes of a
variable exactly what each annotation finds and keeps, and of everything else that it is the same.

**union_tree.** Five SELECTs, three unions, two types; a SELECT, a union of two, and
a union on a subquery of two: room for two wrappings, or one and an appended SELECT.
Three edits (`MaxEdits`) in two nested saves: a wrapping, an edit below it and one beside it.
Every recover has its save (`MaxUnbalanced` is 0); overshoots are included.
Limits 0 (refused), 1 and 3 (within one SELECT, and across two SELECTs of two rows each), offsets 0 and 1.
`UndoIsExact` is stated `~stray`, `LocateFinds` of unions that have no subquery
beside another SELECT: there `_locate_subquery` follows the first one whatever its types are.
A client whose edits are used up and whose saves are taken back stops, hence `CHECK_DEADLOCK FALSE`.

Every property of a passing run comes with a mutant: a definition of the model changed
the way a plausible bug would change the code (`insert(0)` for `append`, a forgotten
decrement, item assignment for `insert()`, a lock that is not released when a visit
raises, ...). The mutated operators stand before the definitions they change, and
under them TLC finds the property violated.

## Proofs

`UndoHistory_proofs`, for every set of trees and operations and every value of the
bounds. Assumptions: bounds are naturals (`BoundsAssumption`), `NoTree` is not a tree,
undoing a tree gives a tree, and `EditsAreUndoable`: undone right after its edit, an
operation gives the former tree back and does not raise. This last one is what the log
asks of the editing methods; it is checked of each (by `RecoverRestores...` and `UndoNeverRaises`
of their runs) and proved of the setters on any tree, of the clauses on sound trees and of
restrictions on shapes. A union needs an invariant of its own.

| theorem | statement |
|---|---|
| `LogIsAChain` | `HSpec => [](HTypeOK /\ LogInv)` |
| `RecoverGivesTheTreeBack` | `HSpec => []RecoverRestores` |
| `IntactLogNeverRaises` | `HSpec => []UndoNeverRaises` |
| `RecordingIsExact` | `HSpec => []RecordingMatchesSaves` |
| `LogImplementsSnapshots` | `DisciplinedSpec => ImplementsSnapshots` |

`RecoverRestores` is not inductive: in the middle of a loop it says nothing. `LogInv`
says what the log is. (1) *A chain*: undoing `op_list[i]` on the tree after its edit
gives the tree before it (`ChainUndoes`, over `trail`). (2) *Marks*: the positions in
`state_stack` are in order, start at zero, are within what the running loop will leave,
and each points at the link of the chain where the tree was `saved` (`MarksInOrder`,
`MarksKeepTrees`). (3) *The target is ahead*: the tree that the running recover owes is
the link `remaining` steps down the chain (`TargetIsAhead`). An edit adds a link;
a save marks the end; a recover takes the latest mark for a target, which is where the
marks and `RecoverCount` must agree, and the step where `Overshoots` matters; an undo
walks one link down. When `remaining` is zero the target is the tree itself. For the
refinement, `Promised` changes only when a client edits, saves or recovers, and each of
these is an `Edit`, `Save` or `Restore`.

`ScalarEdits_proofs`, for every set of SELECTs, relations and arguments:
`SettersUseTheLog` (`Spec => UsesTheLog`: every behaviour of the setters is one of the
log, because each setter is an edit whose operation undoes it, `change_optional`
with its two tests included), `SettersRecordChanges` (`Spec => ChangesAreRecorded`) and
`AttributesAreRestored` (`Spec => []RecoverRestoresAttributes`). The last one is the
theorem of the log applied to the setters: `UndoHistory_proofs` is instantiated (`Chain`),
its assumptions are shown to hold of the setters (`LogAssumptions`), and its inductive
invariant does the rest.

`Helper_proofs`, for any number of threads, mappings and schemas, from the assumptions
on constants of `HelperAssumption`:

| theorem | statement |
|---|---|
| `LockGoesWithResolver` | `Spec => []HelperInv` |
| `VisitsKeepApart` | `Spec => []VisitKeepsItsArguments` |
| `MappingsDoNotLeak` | `Spec => []NoForeignMapping` |

`VisitKeepsItsArguments` is not inductive: nothing in it keeps a second thread out of
the resolver. `VisitorHoldsLock` does: whoever has entered the `with` of a resolver
holds its lock, so two visitors are one (`OneVisitor`). `NoForeignMapping` looks at the
calls without a mapping only; `MappingHasItsVisit` says whose a mapping is, and since
that visit is the one that holds the lock, no other is in the resolver. The steps
outside of the locks leave all of this alone (`OutsideStep`); each step of a visit
has its lemma.

On schemas, in the same module:

| theorem | statement |
|---|---|
| `ChangesGoInOrder` | `Spec => []SchemaInv` |
| `SchemasSettleAlways` | `Spec => []SchemasSettle` |
| `CallsSeeOneSchemaAlways` | `Spec => []CallsSeeOneSchema` |

As long as no two `set_schema` have overlapped, the one that runs has assigned a prefix
of `SetOrder` (`ChangeGoesInOrder`), and when its last attribute is assigned all have its
schema, since `SetOrder` covers them (`SetOrderCovers`); between changes they agree
(`SchemasAgree`). A call that no change overlaps runs between two of them, and what it
has seen is still there (`SeenIsPresent`). `SchemaInv` also says that the fields of the
resolver of `compute_all_solutions` never change: this is why its calls see one schema,
and it is the finding on `set_schema` read from the other side.

`SelectClauses_proofs`, for any variables, references and parsed SELECTs:

| theorem | statement |
|---|---|
| `EditsKeepTheLog` | `Spec => [](SelectInv /\ VarsInv)` |
| `SelectUndoIsExact` | `Spec => []UndoIsExact` |
| `SelectIsSound` | `Spec => []SettledTreeIsSound` |
| `SelectIsTyped` | `Spec => []TypedInv` |
| `SelectTreeIsSound` | `Spec => []TreeIsSound` |

Assumptions: the bounds; finitely many variables and references (`FiniteAssumption`: a loop goes
through them, and what a program has made is finite); parsed SELECTs are sound, their references registered and their variables defined
(`ParsedAssumption`: what the parser leaves, `NamesAreKept` of `parser`). The specification
is `Spec`, with any number of calls before a save and any nesting, where the run has
`SavingSpec`. The edits do not undo each other on every tree: a term that is in the
selection twice, or a second equivalent group, defeats them. So the log is instantiated with the
trees that are `Sound` (each reference in one place, registered) and with the edits that keep them so
(`Exactly`), and each method has a lemma that it makes such an edit (`SelectEdit` to
`DropIsAnEdit`, over what inserting into a list and removing from it do to each other).
The methods that loop are why an invariant about the tree and the log is not
inductive: a method decides what to do when it is called, and does it to the trees that
its earlier edits leave. `AgendaInv` says what stays true of what it has yet to do: a term that it
will remove is still in its clause, a relation still in the tree, and whatever still refers to a
variable that it will undefine is in what it takes away before (`Fits`). `VarsInv` carries
"variables of the tree are defined" through the middle of `undefine_variable`, where it is false of
the relations that are about to leave (`TreeInv`), and to the trees that a later recover gives back
(`SavedInv`). All of it is said of clients that have not made the calls of the findings
(`Kept`), as the properties are.

`TreeIsSound` is `SettledTreeIsSound` with `TypeOK`, and types are promised whatever the client
does: after a call that failed half-way, after an undo of a log that no longer fits the tree, in the middle of
a loop that goes on regardless. So `TypedInv` may use nothing of the above. `TypeOK` is not inductive:
`remove_group_term` and `remove_sort_term` record the index of what they take out, which is a place in the list
only if the term is still there when the loop comes to it. `TermsFit` says of the agenda what makes that
true: the calls that are left are those of the terms of the clause, in their order, or there is one, and its
term is in the clause. `undefine_variable` drops one reference after the other, a fold over a set
(`DropAllIsTyped`): what it computes is not proved by induction over data but from its
equation, which has a solution (`Recursion`, below), and every solution gives trees, since a set that
gives none has a smallest one below it.

`RestrictionTree_proofs`, for any relations, binary nodes, NOT and EXISTS, any parsed
clauses and any bounds:

| theorem | statement |
|---|---|
| `RestrictionsStaySound` | `Spec => [](intact => TreeIsSound)` |
| `DisciplinedRestrictionsAreSound` | `DisciplinedSpec => []TreeIsSound` |
| `RestrictionsAreGivenBack` | `Spec => []UndoIsExact` |
| `RemoveTakesTheNodeOnly` | `DisciplinedSpec => RemoveIsExact` |

Assumptions: the kinds of nodes are disjoint (`KindsAssumption`), nodes are finitely many
(`FiniteAssumption`: `Subtree` is a walk of as many steps), the bounds are naturals, and a
parsed clause is a tree where every node has the parent that holds it and the references are
registered (`ParsedAssumption`). That the log be used as it must be is said by
`intact`, or by the specification (`DisciplinedSpec`).

None of these properties is inductive, for three reasons, each with its part of `Inv`.
(1) *Parents may be wrong*, and `remove_node` and `undo()` read them. `Led` says how wrong: the
parent of a node is who holds it, or the scope whose spine of conjunctions and disjunctions it
is on (`OnSpine`). Every edit and undo keeps this (`WrapLeads`, `CutLeads` and
back, `UnwrapLeads`, `UncutLeads`), and it is enough for `remove_node` to find a node that can
be taken out (`RemovableFacts`), which is above the given one (`LiftedIsAbove`).
(2) *An undo does not give the former tree back*, since parents may differ. What it gives back is
its shape, so an entry of the log is described by the shapes alone: `Entry(op, t, u)` says that
`u` is `t` wrapped, cut, emptied or started, by one of four shapes of edits. An undo lands on a
tree of the same shape (`SameTree`), and the entry before it is still true of it (`EntryOfShape`). The
theorem of the log is then used with shapes for trees (`Chain`), to which an operation is the shape that
it gives back. (3) *A removed node is not in the tree*, and its undo relies on the children
and parents it had. `GoneInv` says that whatever an entry has taken out is in no later tree of the
trail and is as it was; later edits leave it alone because the log refers to the node over it
(`GoneIsUnder`, `OldEntriesKept`), so that it is not collected and its identity not reused.
`EntryIsUndone` is the heart of it: on any sound tree that an entry leads to, whatever else has happened, the
undo does not raise, keeps the tree sound, and gives back the shape and the references.
`RefsInv` carries the references through the trees that were saved.

The proof changed the model twice. `IndexIn` chose among two places where a Not or an Exists has
one; and `astray` was too weak: a removal that passes through a NOT may follow the wrong parent
of the NOT, when the node that it was given has a right one.

`TypeResolver_proofs`, for any schema, any queries with subqueries at any depth and any number of
calls and edits:

| theorem | statement |
|---|---|
| `CallsKeepTheShape` | `Spec => []ShapeInv` |
| `BackEndsAlwaysAgree` | `Spec => []BackendsAgree` |
| `CallsKeepTheFit` | `Spec => []FitInv` |
| `SolutionsAlwaysFit` | `Spec => []SolutionsFit` |
| `SolutionsStayComplete` | `Spec => []SolutionsAreComplete` |
| `TypesAlwaysAgree` | `Spec => []TypesAgree` |
| `AllSolutionsNarrowNothing` | `Spec => AllSolutionsKeepSolutions` |

Assumptions: the parts of the schema have their types, terms of different kinds differ
(`SchemaAssumption`, `TermAssumption`), types and variables are finitely many (gecode numbers
them), and what the parser makes of a query (`QueriesAssumption`): its SELECTs form a forest,
a relation has a variable or a constant for a subject, names are known to their SELECT.
`ShapeInv` is type correctness with what never changes of the query. `BackendsAgree` needs
no more than that: every value of an assignment is in its domain, so a type without a number
is the type of no variable, and leaving it out of an alternative, or answering a KeyError with no
solution, loses nothing that the Python constraints would accept.
`SolutionsFit` is not inductive: it says nothing while a call runs, and narrowing a subquery takes
solutions from SELECTs that were solved before. `FitInv` says where the walk is (`WalkInv`: its path is a
path of the query as parsed, each SELECT at the place that the one above has just passed), that all
that the walk has passed is solved (`SolvedInv`), and that an answered query is (`AnsweredInv`).
Solved is `Settled`: the solutions of a SELECT fit, and *every solution of a SELECT of its subquery extends to
an assignment that fits it*. This last part makes narrowing harmless: it removes from the subquery only what
no solution above uses, so the types of the columns that remain are those that the aliases kept
(`NarrowSettles`), nothing further down changes its columns' types, and a second call with the same
mapping narrows nothing (`AllSolutionsNarrowNothing`). Completeness (`Whole`) is lost by a SELECT that
is narrowed, so it is stated of the root only. `Covers` compares the two keys. What goes on in one subtree leaves all
others alone because the query is a forest (`Apart`, `BelowParent`, `AroundStays`).

Trying to prove these changed the statement twice. A call of `compute_all_solutions` with a mapping after
`compute_solutions` without one (or the reverse) does narrow the subqueries by solutions that are not those of the SELECT
above: `answered` forgets the answer then. And the walk had to be a path of the query, not a list
made at the start of the call.

`UnionTree_proofs`, for any parsed unions with subqueries at any depth, any types, bounds and arguments:

| theorem | statement |
|---|---|
| `UnionInvAlways` | `Spec => []UnionInv` |
| `TreeIsSoundWhileBalanced` | `Spec => [](Balanced => TreeIsSound)` |
| `TreeIsSoundAlways` | `MaxUnbalanced = 0` implies `Spec => []TreeIsSound` |
| `UndoIsExactAlways` | `Spec => []UndoIsExact` |
| `LocateFindsWhileBalanced` | `Spec => [](Balanced => LocateFinds)` |
| `LocateFindsAlways` | `MaxUnbalanced = 0` implies `Spec => []LocateFinds` |
| `BoundsApplyWhileBalanced` | as the next one, on steps from a `Balanced` state |
| `BoundsApplyAlways` | `MaxUnbalanced = 0` implies `Spec => BoundsApplyToTheUnion` |

Assumptions: those of the module on its constants, of which `ParsedAssumption` says what the parser makes
(a SELECT in one union, a union under one SELECT, nothing below itself, parents that lead up).
The number of SELECTs and of unions is not assumed finite: that nothing is below itself is said by sets
of unions (`Founded`), and numbers that have not been used yet stand nowhere (`Unmade`).
`Balanced` is that the log is intact or that the client never calls `recover()` without a `save_state()`
(`MaxUnbalanced = 0`). Such a call decrements `memorizing` before its assertion fails; from then on edits are
recorded before a save and not after it, and nothing is promised of the tree. A recover that overshoots
is another matter: it gives the wrong tree back, but a sound one.

The invariant is about the log more than about the tree. A recover takes the SELECTs of the root out and puts
others in, which may have been moved below a new union meanwhile; where a SELECT stands is decided by the operations that
are still there. Its parts, of every state that is balanced (`EditInv`):

- `SoundTree` is what is true of the tree and of those that the log remembers, without parents.
- `RootInv`: the lists of SELECTs that the root has, level by level down the log, each made from the one before by its
  operation. An undo is then defined on the lists alone, and an `AppendSelect` finds its SELECT.
- `LevelInv`: for each level, what the tree would be if its root had the SELECTs of that time. Below the root
  every SELECT has its union for a parent, except those that the undos down to that level will set (`Touched`); and no
  SELECT that the root has on the way down is in a subquery of that level. Without this last
  part an undo could put a SELECT into the root that is below it as well: it holds because wrapping moves all the SELECTs
  of the root, below a SELECT which has to leave before they come back.
- `MarkInv`, while the log is intact: what a `save_state()` has promised, that undoing to its level gives each SELECT
  its subquery, limit and offset of that time. The value of an attribute is that of the last operation
  on it above the level, or is unchanged (`BackTo`); a `stray` edit is excused from this and from nothing else.

`LocateFinds` walks down a chain of wrappings, `BoundsApplyToTheUnion` compares the rows of a union and of
the union that wraps it. `SelectsBelow`, `Locate` and `Rows` are recursive functions on the unions; that their equations hold
is no axiom for the prover, since unions may be infinitely many. `Basics_proofs` proves it once: a functional
equation in which each value depends on those of its uses alone, which end (`Ends`, `Depends`), has a
solution (`Recursion`): the attempts to solve it on a part of the domain agree where they meet, and one more argument
can always be added. With the equation, `SelectsBelow` is shown to be the least set which is closed under "the SELECTs of
its subquery" (`Under`), and the rest is proved with that.

Proving this changed the model, not its behaviour: `SelectsBelow`, `Locate`, `Rows`, the loop of `wrap_selects`
(`Moved`) and the filter of `set_possible_types` (`Filtered`) were RECURSIVE operators or folds and
are recursive functions or the k-th step of the loop now.

Only model-checked: the liveness properties (`RecoverEnds`, `LocksAreReleased`), which are out of
the prover's reach; the invariants of `Parser` and of `Preparation`, and `AnnotationIsStable`.
`Parser` and `Preparation` compute on whole trees of any depth (a parse, a text, a copy, a check, an
annotation, a simplification), with RECURSIVE operators, which the prover cannot use; and what
they promise is that such computations agree on every tree, which is induction over data.
Nothing is said of a restriction whose log is no longer intact: the client of its run keeps it so.

## Findings

Two are runs that fail, on the property named.

- `undo_overshoot`, `rql/undo.py:42`. A save, an edit, a second save and a recover with
  no edit in between: `op_list[:-1]` of a list of one is empty, `or op_list[:]` takes
  all, and the edit before the second save is undone.
- `preparation_ored`, `rql/stcheck.py:699`. In `Any X WHERE EXISTS(X eid 1, X r Y) OR X s Y`
  the eid relation is taken for certain, because `ored()` stops at the EXISTS around it:
  the query becomes `Any 1 WHERE EXISTS(1 r Y) OR 1 s Y`. The same happens when the EXISTS is
  negated, and to type restrictions under an OR or a NOT, which are removed.

The others are in the models, which do as the code does, and are kept out of the properties
by a precondition with a name.

*Editing.*

- `rql/undo.py:172`. When the removal of a node directly under a SELECT or an EXISTS is
  undone, the "sibling" to reparent is the node itself: the child that had taken its
  place keeps the SELECT or EXISTS as its parent, and removing that child next
  removes the whole EXISTS, or raises (`astray`). The same happens when the child is a NOT and what
  is removed is under it. A wrong parent is always the scope the node is in
  (`ParentsLeadToScope`).
- `rql/stmts.py:762`. `undefine_variable` raises on a variable that a relation refers to
  twice, or that is inside a function (`DropFails`).
- `rql/nodes.py:186`. `remove_node` on an ORDERBY or GROUPBY term records twice, and the undo
  of the second record makes the term the WHERE clause (`"term as a node"`). Of two
  equivalent GROUPBY terms, `remove_group_term` of the second deletes the first and unregisters
  the second (`rql/stmts.py:843`, `"equivalent groups"`). `set_having` leaves the references
  of the terms it replaces registered (`rql/stmts.py:91`, `"having again"`).
- `rql/stmts.py:64`. `undo_modification.__exit__` takes no exception arguments, so
  leaving its `with` block raises. Not modelled.
- `append_select` sets no parent, and edits of SELECTs below a wrapping are not recorded
  (`stray`). A limit that is refused is refused after the union has been wrapped.
  `wrap_selects` of an empty union raises (`CanWrap`). `_subq_cache` is never cleared.
- `test/unittest_nodes.py:175-190` says that some edits are not undoable; `recover()` undoes them.

*Helper and resolvers.*

- `rql/__init__.py:82`. `set_schema` leaves out the resolver of `compute_all_solutions`, which
  keeps its first schema.
- `rql/analyze.py:403`. A mapping given to one call resets the constructor's to `None` (`Return`).

*Parser and text.*

- `^` raises `NameError` (`Do`, `"MUL_OP"`). A keyword where only a name may come is a name
  (`KeywordNames`). The check of `Insert.add_main_relation` refuses nothing, since it looks for a
  constant where a comparison is; DELETE of a relation to anything but a variable fails an assertion.
- `as_string` writes no parentheses around unary expressions, and writes them around an
  operation that begins a HAVING comparison, which is then read as a condition (`Writable`).
- `rql/nodes.py:338`. `HAVING NOT X > 1` is written `HAVING NOT (X > 1)`, which the parser
  refuses: at `exprs_not` (`rql/parser.py:621-640`) a FUNCTION may come, and `NOT ` before a
  parenthesis is a longer match of its pattern than `NOT` (`Writable`). In a WHERE no function
  may come there, and the text is read back.
- `copy()` of a relation whose join mark is `"both"` raises (`CopyRaises`).

*Checker, annotator, simplifier.*

- `rewrite_shared_optional` is applied only if what shares the variable has been visited
  before, although the docstring of the annotator makes no such condition (`OptionalsAreLocal`).
  It leaves `constnode` with the variable whose eid relation it takes, and simplifying then
  raises `AttributeError` (`SimplifyFinishes`).
- `rql/stcheck.py:718`. The owner of an attribute is the subject that was read before the rewriting.
  `rql/stcheck.py:595`. `rewrite_shared_optional` asks whether the reference is the relation's
  right-hand side after line 589 has replaced it: it never is, and lines 596 to 604, which would
  move the attribute to the new variable, never run, although the comment at 590 announces
  it. In `Y n N, EXISTS(X n N, Y n N?)` the variable N keeps the
  attribute of X, which is that of the new variable, and no annotation clears `attrvars` (`Same`).
- `rql/stcheck.py:189`. A DISTINCT query may sort on the subject of an attribute whose value
  it selects (`DISTINCT Any N ORDERBY X WHERE X n N`): the cardinality of final relations is
  `?1`, so the step back counts as one value, while many entities may have the same
  (`SortsBackOverAttribute`). The message says that such a sort is refused because it "may have different
  values for a resulting row".
- Which of several variables in EXISTS is the main one depends on the order
  of the visit.
- A variable that an eid names and HAVING uses makes simplifying raise `ValueError`
  (`SimplifyFinishes`). A sort on a function of two variables is dropped whole when one is replaced.

## Not modelled

- In the SELECTs of `SelectClauses`: `select_only_variables`, `set_statement_type`,
  `Select.replace` on terms, subqueries and column aliases; the insertion of relations under
  a SET or INSERT statement, which records nothing.
- `add_type_restriction` on an edited tree, whose `typerel` other edits may have removed.
- DELETE, INSERT and SET statements in the resolvers, the checker and the annotator;
  several WITH of one SELECT in the resolver; uid constants that `simplify` has rewritten.
- Subqueries and unions of several SELECTs in the checker, the annotator and the
  simplifier; `clean_solutions` and solutions computed before the annotation; the checks of functions
  against a back-end and of their arity.
- `subquery_selection_index`, the cache of `locate_subquery` and the descriptions of
  columns and types. The cache is read by callers that no longer edit the tree.
- `rqlvar_maker` beyond one letter and with a `stop`.
- `rqlgen.py` formats strings; `editextensions.py` composes editing methods;
  `pygments_ext.py`, the tools and the packaging have no behaviour of their own.
  `compare.py` refers to classes that no longer exist and cannot run. The search inside
  Gecode and the runtime of yapps are libraries'.
