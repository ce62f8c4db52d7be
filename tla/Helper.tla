------------------------------- MODULE Helper -------------------------------
(***************************************************************************)
(* One RQLHelper shared by threads: parse, compute_solutions,              *)
(* compute_all_solutions and set_schema.  A resolver keeps the arguments   *)
(* of the visit that runs in its attributes, under a lock; the schemas are *)
(* attributes of four objects, assigned one after the other with no lock.  *)
(***************************************************************************)
EXTENDS Naturals, Sequences, FiniteSets, SequencesExt

CONSTANTS
  Thread,
  Schema,          \* the schemas given to the helper
  Reserved,        \* those with a type named as a keyword of the language
  FirstSchema,     \* the one given to the constructor
  Mapping,         \* the uid_func_mapping given to a call
  DefaultMapping,  \* the one given to the constructor
  None,            \* Python's None
  NoOne,           \* no thread
  MaxReads,        \* bound: what a visit reads of the schema
  MaxChanges       \* bound: calls of set_schema

ASSUME HelperAssumption ==
  /\ FirstSchema \in Schema \ Reserved
  /\ None \notin Mapping
  /\ NoOne \notin Thread
  /\ MaxReads \in Nat /\ MaxChanges \in Nat

VARIABLES
  schemas,   \* the schema that each attribute comes from
  uid_func,  \* the mapping that each resolver works with
  visitor,   \* the thread whose kwargs each resolver holds
  lock,      \* the thread that holds the lock of each resolver
  call,      \* what each thread is doing
  changes,   \* calls of set_schema so far
  overlapped, raced, raised  \* history, see below

vars == <<schemas, uid_func, visitor, lock, call, changes, overlapped, raced, raised>>

Resolver == {"analyser", "itr_analyser"}

Fields(r) == {<<r, "schema">>, <<r, "base_domain">>, <<r, "nonfinal_domain">>}

\* What parse reads, what set_schema assigns.
ParseAttribute == {<<"checker", "schema">>, <<"annotator", "schema">>}
SetAttribute   == ParseAttribute \cup Fields("analyser")

Attribute == SetAttribute \cup Fields("itr_analyser")

\* Mutant of SetOrder: one of the domains is forgotten.
SetOrderShort == <<<<"checker", "schema">>, <<"annotator", "schema">>, <<"analyser", "schema">>,
                   <<"analyser", "nonfinal_domain">>>>

\* What set_schema assigns, and parse reads, in order.
SetOrder == <<<<"checker", "schema">>, <<"annotator", "schema">>, <<"analyser", "schema">>,
              <<"analyser", "base_domain">>, <<"analyser", "nonfinal_domain">>>>

ParseOrder == <<<<"checker", "schema">>, <<"annotator", "schema">>, <<"annotator", "schema">>>>

NoCall == [name |-> "none"]

SetSchemaCall == [name : {"set_schema"}, schema : Schema \ Reserved, todo : Seq(SetAttribute)]
ParseCall     == [name : {"parse"}, todo : Seq(ParseAttribute), seen : SUBSET Schema]
VisitCall     == [name : {"visit"}, resolver : Resolver, mapping : Mapping \cup {None},
                  pc : {"waiting", "locked", "visiting"}, reads : 0 .. MaxReads, seen : SUBSET Schema]

Call == {NoCall} \cup SetSchemaCall \cup ParseCall \cup VisitCall

TypeOK ==
  /\ schemas \in [Attribute -> Schema \ Reserved]
  /\ uid_func \in [Resolver -> Mapping \cup {DefaultMapping, None}]
  /\ visitor \in [Resolver -> Thread \cup {NoOne}]
  /\ lock \in [Resolver -> Thread \cup {NoOne}]
  /\ call \in [Thread -> Call]
  /\ changes \in 0 .. MaxChanges
  /\ overlapped \subseteq Thread
  /\ raced \in BOOLEAN
  /\ raised \subseteq Resolver

Init ==
  /\ schemas = [a \in Attribute |-> FirstSchema]
  /\ uid_func = [r \in Resolver |-> DefaultMapping]
  /\ visitor = [r \in Resolver |-> NoOne]
  /\ lock = [r \in Resolver |-> NoOne]
  /\ call = [t \in Thread |-> NoCall]
  /\ changes = 0
  /\ overlapped = {}
  /\ raced = FALSE
  /\ raised = {}

Running(name) == {t \in Thread : call[t].name = name}

\* History: a call is in overlapped when a set_schema ran meanwhile, raced is TRUE
\* when two set_schema have run at a time.
StartCall(t, c) ==
  /\ call[t] = NoCall
  /\ call' = [call EXCEPT ![t] = c]
  /\ overlapped' = overlapped \cup IF Running("set_schema") # {} THEN {t} ELSE {}

EndCall(t) ==
  /\ call' = [call EXCEPT ![t] = NoCall]
  /\ overlapped' = overlapped \ {t}

-----------------------------------------------------------------------------
\* set_schema, which refuses a schema with a reserved word before it assigns.
SetSchema(t, s) ==
  /\ changes < MaxChanges
  /\ s \notin Reserved
  /\ call[t] = NoCall
  /\ call' = [call EXCEPT ![t] = [name |-> "set_schema", schema |-> s, todo |-> SetOrder]]
  /\ changes' = changes + 1
  /\ overlapped' = overlapped \cup (Thread \ Running("none"))
  /\ raced' = (raced \/ Running("set_schema") # {})
  /\ UNCHANGED <<schemas, uid_func, visitor, lock, raised>>

\* Mutant of Assign: the last attribute is left.
AssignButLast(t) ==
  /\ t \in Running("set_schema")
  /\ schemas' = [schemas EXCEPT ![Head(call[t].todo)] = call[t].schema]
  /\ IF Len(call[t].todo) = 2 THEN EndCall(t)
     ELSE call' = [call EXCEPT ![t].todo = Tail(@)] /\ UNCHANGED overlapped
  /\ UNCHANGED <<uid_func, visitor, lock, changes, raced, raised>>

Assign(t) ==
  /\ t \in Running("set_schema")
  /\ schemas' = [schemas EXCEPT ![Head(call[t].todo)] = call[t].schema]
  /\ IF Len(call[t].todo) = 1 THEN EndCall(t)
     ELSE call' = [call EXCEPT ![t].todo = Tail(@)] /\ UNCHANGED overlapped
  /\ UNCHANGED <<uid_func, visitor, lock, changes, raced, raised>>

\* parse: check, annotate unless told not to, then the schema of the tree.
Parse(t, annotate) ==
  /\ StartCall(t, [name |-> "parse", seen |-> {},
                   todo |-> IF annotate THEN ParseOrder ELSE RemoveAt(ParseOrder, 2)])
  /\ UNCHANGED <<schemas, uid_func, visitor, lock, changes, raced, raised>>

ParseStep(t) ==
  /\ t \in Running("parse")
  /\ IF call[t].todo = <<>> THEN EndCall(t)
     ELSE /\ call' = [call EXCEPT ![t].todo = Tail(@),
                                  ![t].seen = @ \cup {schemas[Head(call[t].todo)]}]
          /\ UNCHANGED overlapped
  /\ UNCHANGED <<schemas, uid_func, visitor, lock, changes, raced, raised>>

\* The checker finds an error, once it has read the schema.
ParseRaises(t) ==
  /\ t \in Running("parse")
  /\ call[t].seen # {}
  /\ EndCall(t)
  /\ UNCHANGED <<schemas, uid_func, visitor, lock, changes, raced, raised>>

-----------------------------------------------------------------------------
\* compute_solutions and compute_all_solutions, each with the lock of its resolver.
Visiting(t, r, pc) == call[t].name = "visit" /\ call[t].resolver = r /\ call[t].pc = pc

ComputeSolutions(t, r, m) ==
  /\ StartCall(t, [name |-> "visit", resolver |-> r, mapping |-> m,
                   pc |-> "waiting", reads |-> 0, seen |-> {}])
  /\ UNCHANGED <<schemas, uid_func, visitor, lock, changes, raced, raised>>

\* Mutant of Acquire: the lock is not tested.
AcquireBlindly(t, r) ==
  /\ Visiting(t, r, "waiting")
  /\ lock' = [lock EXCEPT ![r] = t]
  /\ call' = [call EXCEPT ![t].pc = "locked"]
  /\ UNCHANGED <<schemas, uid_func, visitor, changes, overlapped, raced, raised>>

Acquire(t, r) ==
  /\ Visiting(t, r, "waiting")
  /\ lock[r] = NoOne
  /\ lock' = [lock EXCEPT ![r] = t]
  /\ call' = [call EXCEPT ![t].pc = "locked"]
  /\ UNCHANGED <<schemas, uid_func, visitor, changes, overlapped, raced, raised>>

\* visit() keeps its arguments in the resolver.
Visit(t, r) ==
  /\ Visiting(t, r, "locked")
  /\ visitor' = [visitor EXCEPT ![r] = t]
  /\ uid_func' = [uid_func EXCEPT ![r] = IF call[t].mapping = None THEN @ ELSE call[t].mapping]
  /\ call' = [call EXCEPT ![t].pc = "visiting"]
  /\ UNCHANGED <<schemas, lock, changes, overlapped, raced, raised>>

\* The handlers of the nodes read the schema and the domains.
ReadSchema(t, r) ==
  /\ Visiting(t, r, "visiting")
  /\ call[t].reads < MaxReads
  /\ \E a \in Fields(r) :
       call' = [call EXCEPT ![t].reads = @ + 1, ![t].seen = @ \cup {schemas[a]}]
  /\ UNCHANGED <<schemas, uid_func, visitor, lock, changes, overlapped, raced, raised>>

\* Mutant of Return: the mapping is not reset.
ReturnKeepsMapping(t, r) ==
  /\ Visiting(t, r, "visiting")
  /\ lock' = [lock EXCEPT ![r] = NoOne]
  /\ EndCall(t)
  /\ UNCHANGED <<schemas, uid_func, visitor, changes, raced, raised>>

\* A mapping that was given is reset to None, whatever the constructor was given.
Return(t, r) ==
  /\ Visiting(t, r, "visiting")
  /\ uid_func' = [uid_func EXCEPT ![r] = IF call[t].mapping = None THEN @ ELSE None]
  /\ lock' = [lock EXCEPT ![r] = NoOne]
  /\ EndCall(t)
  /\ UNCHANGED <<schemas, visitor, changes, raced, raised>>

\* Mutant of Raise: acquire() and release() without a "with".
RaiseKeepsLock(t, r) ==
  /\ Visiting(t, r, "visiting")
  /\ EndCall(t)
  /\ raised' = raised \cup {r}
  /\ UNCHANGED <<schemas, uid_func, visitor, lock, changes, raced>>

\* A TypeResolverException, say: the lock is released, the mapping stays.
\* History: the resolver is in raised when that mapping was given to the call.
Raise(t, r) ==
  /\ Visiting(t, r, "visiting")
  /\ lock' = [lock EXCEPT ![r] = NoOne]
  /\ EndCall(t)
  /\ raised' = raised \cup IF call[t].mapping = None THEN {} ELSE {r}
  /\ UNCHANGED <<schemas, uid_func, visitor, changes, raced>>

\* A thread goes on with its call, once it has the lock if it needs one.
Proceed(t) ==
  \/ Assign(t)
  \/ ParseStep(t)
  \/ ParseRaises(t)
  \/ \E r \in Resolver : Visit(t, r) \/ ReadSchema(t, r) \/ Return(t, r) \/ Raise(t, r)

Next ==
  \E t \in Thread :
    \/ \E s \in Schema : SetSchema(t, s)
    \/ \E annotate \in BOOLEAN : Parse(t, annotate)
    \/ \E r \in Resolver, m \in Mapping \cup {None} : ComputeSolutions(t, r, m)
    \/ \E r \in Resolver : Acquire(t, r)
    \/ Proceed(t)

\* The interpreter lets every thread that can run go on.  Nothing is assumed of the
\* order in which the lock is given.
Fairness == \A t \in Thread : WF_vars(Proceed(t))

Spec == Init /\ [][Next]_vars /\ Fairness

-----------------------------------------------------------------------------
\* A resolver works with the arguments of the visit that runs in it, although
\* visit() itself is "not thread safe".
VisitKeepsItsArguments ==
  \A t \in Thread, r \in Resolver :
    Visiting(t, r, "visiting") =>
      /\ visitor[r] = t
      /\ call[t].mapping # None => uid_func[r] = call[t].mapping

\* What makes it so.  A thread that has entered the "with" of a resolver holds its lock.
VisitorHoldsLock ==
  \A t \in Thread, r \in Resolver :
    Visiting(t, r, "locked") \/ Visiting(t, r, "visiting") => lock[r] = t

\* A resolver with a mapping that is neither the constructor's nor None is in the
\* visit that was given it, or in none since such a visit raised.
MappingHasItsVisit ==
  \A r \in Resolver :
    \/ r \in raised
    \/ uid_func[r] \in {DefaultMapping, None}
    \/ \E t \in Thread : Visiting(t, r, "visiting") /\ call[t].mapping # None

\* A set_schema has something left to assign.
SetSchemaGoesOn == \A t \in Running("set_schema") : call[t].todo # <<>>

\* The inductive invariant: the lock of a resolver goes with its attributes.
HelperInv ==
  /\ TypeOK
  /\ SetSchemaGoesOn
  /\ VisitorHoldsLock
  /\ VisitKeepsItsArguments
  /\ MappingHasItsVisit

\* A call that gives no mapping never works with the one of another call, unless
\* such a call has raised.
NoForeignMapping ==
  \A t \in Thread, r \in Resolver :
    (Visiting(t, r, "visiting") /\ call[t].mapping = None /\ r \notin raised)
      => uid_func[r] \in {DefaultMapping, None}

\* A call during which no set_schema ran sees one schema only, the one of its
\* attributes; this holds after any number of set_schema, one at a time.
CallsSeeOneSchema ==
  ~raced =>
    \A t \in Running("parse") \cup Running("visit") :
      t \notin overlapped => Cardinality(call[t].seen) <= 1

\* After set_schema calls that did not overlap, the checker, the annotator and the
\* analyser have the same schema, and so have its domains.
SchemasSettle ==
  (~raced /\ Running("set_schema") = {}) =>
    Cardinality({schemas[a] : a \in SetAttribute}) = 1

\* What makes it so.  While no set_schema overlaps another, the one that runs has
\* assigned the first attributes, and between two of them all have the same schema.
ChangeGoesInOrder ==
  \A t \in Running("set_schema") :
    /\ \A u \in Running("set_schema") : u = t
    /\ \E k \in 1 .. Len(SetOrder) :
         /\ call[t].todo = SubSeq(SetOrder, k, Len(SetOrder))
         /\ \A i \in 1 .. k - 1 : schemas[SetOrder[i]] = call[t].schema

SchemasAgree ==
  Running("set_schema") = {} => \A a, b \in SetAttribute : schemas[a] = schemas[b]

Readable(c) == IF c.name = "parse" THEN ParseAttribute ELSE Fields(c.resolver)

\* A call that no set_schema overlaps runs in such a time, and what it has seen is
\* what is still there.
SeenIsPresent ==
  \A t \in (Running("parse") \cup Running("visit")) \ overlapped :
    /\ Running("set_schema") = {}
    /\ call[t].seen \subseteq {schemas[a] : a \in Readable(call[t])}

\* The inductive invariant about schemas.
SchemaInv ==
  /\ \A a \in Fields("itr_analyser") : schemas[a] = FirstSchema
  /\ ~raced => ChangeGoesInOrder /\ SchemasAgree /\ SeenIsPresent

\* A lock that is taken is released, also when the visit raises.
LocksAreReleased ==
  \A t \in Thread, r \in Resolver : lock[r] = t ~> lock[r] # t
=============================================================================
