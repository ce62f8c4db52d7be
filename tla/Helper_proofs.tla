--------------------------- MODULE Helper_proofs ----------------------------
(***************************************************************************)
(* For any number of threads, schemas, mappings and changes: the lock of a *)
(* resolver keeps the arguments of its visits apart; as long as set_schema *)
(* calls do not overlap, calls see one schema, and the objects that        *)
(* set_schema reaches agree between them.                                  *)
(***************************************************************************)
EXTENDS Helper, SequenceTheorems, FiniteSetTheorems, TLAPS

LEMMA OrdersType ==
  /\ SetOrder \in Seq(SetAttribute) /\ SetOrder # <<>>
  /\ ParseOrder \in Seq(ParseAttribute)
  /\ RemoveAt(ParseOrder, 2) \in Seq(ParseAttribute)
<1>1. SetOrder \in Seq(SetAttribute) /\ SetOrder # <<>> /\ ParseOrder \in Seq(ParseAttribute)
  BY DEF SetOrder, ParseOrder, SetAttribute, ParseAttribute, Fields
<1>2. SubSeq(ParseOrder, 1, 1) \in Seq(ParseAttribute) /\ SubSeq(ParseOrder, 3, 3) \in Seq(ParseAttribute)
  BY DEF ParseOrder, ParseAttribute
<1>3. Len(ParseOrder) = 3
  BY DEF ParseOrder
<1> QED BY <1>1, <1>2, <1>3 DEF RemoveAt

\* The kinds of calls are told apart by their names.
LEMMA CallKinds ==
  ASSUME NEW c \in Call
  PROVE  /\ c.name = "none" => c = NoCall
         /\ c.name = "set_schema" => c \in SetSchemaCall
         /\ c.name = "parse" => c \in ParseCall
         /\ c.name = "visit" => c \in VisitCall
  BY DEF Call, NoCall, SetSchemaCall, ParseCall, VisitCall

-----------------------------------------------------------------------------
\* Steps that are outside of the "with" of both resolvers.  They leave what the
\* lock protects alone.
Outside(t) ==
  /\ UNCHANGED <<uid_func, visitor, lock, raised>>
  /\ call' \in [Thread -> Call]
  /\ \A u \in Thread \ {t} : call'[u] = call[u]
  /\ \A r \in Resolver, pc \in {"locked", "visiting"} : ~Visiting(t, r, pc) /\ ~Visiting(t, r, pc)'

LEMMA OutsideStep ==
  ASSUME VisitorHoldsLock, VisitKeepsItsArguments, MappingHasItsVisit,
         NEW t \in Thread, Outside(t)
  PROVE  VisitorHoldsLock' /\ VisitKeepsItsArguments' /\ MappingHasItsVisit'
<1>1. \A u \in Thread, r \in Resolver, pc \in {"locked", "visiting"} :
        /\ Visiting(u, r, pc)' = Visiting(u, r, pc)
        /\ Visiting(u, r, pc) => call'[u] = call[u]
  BY DEF Outside, Visiting
<1>2. VisitorHoldsLock'
  BY <1>1 DEF VisitorHoldsLock, Outside
<1>3. VisitKeepsItsArguments'
  BY <1>1 DEF VisitKeepsItsArguments, Outside
<1>4. MappingHasItsVisit'
  BY <1>1 DEF MappingHasItsVisit, Outside
<1> QED BY <1>2, <1>3, <1>4

\* A call that starts.
LEMMA StartCallStep ==
  ASSUME TypeOK, SetSchemaGoesOn, NEW t \in Thread, NEW c \in Call \ SetSchemaCall, c # NoCall,
         c.name = "visit" => c.pc = "waiting", StartCall(t, c),
         UNCHANGED <<schemas, uid_func, visitor, lock, changes, raced, raised>>
  PROVE  TypeOK' /\ SetSchemaGoesOn' /\ Outside(t)
<1>1. call'[t] = c /\ call[t] = NoCall
  BY DEF TypeOK, StartCall
<1>2. call' \in [Thread -> Call] /\ \A u \in Thread \ {t} : call'[u] = call[u]
  BY DEF TypeOK, StartCall
<1>3. TypeOK'
  BY <1>2 DEF TypeOK, StartCall, Running
<1>4. SetSchemaGoesOn'
  BY <1>1, <1>2, CallKinds DEF SetSchemaGoesOn, Running
<1>5. Outside(t)
  BY <1>1, <1>2 DEF Outside, Visiting, NoCall
<1> QED BY <1>3, <1>4, <1>5

\* A call of parse or set_schema that goes on or ends.
LEMMA EndCallStep ==
  ASSUME TypeOK, SetSchemaGoesOn, NEW t \in Thread, EndCall(t)
  PROVE  /\ call' \in [Thread -> Call]
         /\ call'[t] = NoCall
         /\ \A u \in Thread \ {t} : call'[u] = call[u]
         /\ overlapped' \subseteq Thread
         /\ SetSchemaGoesOn'
<1>1. call' = [call EXCEPT ![t] = NoCall] /\ NoCall \in Call /\ overlapped' = overlapped \ {t}
  BY DEF EndCall, Call
<1>2. call' \in [Thread -> Call] /\ call'[t] = NoCall
  BY <1>1 DEF TypeOK
<1>3. \A u \in Thread \ {t} : call'[u] = call[u]
  BY <1>1 DEF TypeOK
<1>4. SetSchemaGoesOn'
  BY <1>2, <1>3 DEF SetSchemaGoesOn, Running, NoCall
<1> QED BY <1>1, <1>2, <1>3, <1>4 DEF TypeOK

LEMMA SetSchemaStep ==
  ASSUME TypeOK, SetSchemaGoesOn, HelperAssumption,
         NEW t \in Thread, NEW s \in Schema, SetSchema(t, s)
  PROVE  TypeOK' /\ SetSchemaGoesOn' /\ Outside(t)
<1> DEFINE c == [name |-> "set_schema", schema |-> s, todo |-> SetOrder]
<1>1. c \in Call
  BY OrdersType DEF SetSchema, Call, SetSchemaCall
<1>2. /\ call' \in [Thread -> Call] /\ call'[t] = c /\ call[t] = NoCall
      /\ \A u \in Thread \ {t} : call'[u] = call[u]
  BY <1>1 DEF SetSchema, TypeOK
<1>3. TypeOK'
  BY <1>2 DEF SetSchema, TypeOK, Running, HelperAssumption
<1>4. SetSchemaGoesOn'
  BY <1>2, OrdersType DEF SetSchemaGoesOn, Running
<1>5. Outside(t)
  BY <1>2 DEF SetSchema, Outside, Visiting, NoCall
<1> QED BY <1>3, <1>4, <1>5

LEMMA AssignStep ==
  ASSUME TypeOK, SetSchemaGoesOn, NEW t \in Thread, Assign(t)
  PROVE  TypeOK' /\ SetSchemaGoesOn' /\ Outside(t)
<1>1. call[t] \in SetSchemaCall /\ call[t].todo # <<>>
  BY CallKinds DEF Assign, Running, TypeOK, SetSchemaGoesOn
<1>2. /\ call[t].schema \in Schema \ Reserved
      /\ call[t].todo \in Seq(SetAttribute) /\ Head(call[t].todo) \in SetAttribute
      /\ Tail(call[t].todo) \in Seq(SetAttribute)
      /\ Len(call[t].todo) # 1 => Tail(call[t].todo) # <<>>
  <2>1. call[t].schema \in Schema \ Reserved /\ call[t].todo \in Seq(SetAttribute)
    BY <1>1 DEF SetSchemaCall
  <2>2. Len(call[t].todo) \in Nat \ {0}
    BY <1>1, <2>1, EmptySeq, LenProperties
  <2>3. /\ Head(call[t].todo) \in SetAttribute /\ Tail(call[t].todo) \in Seq(SetAttribute)
        /\ Len(Tail(call[t].todo)) = Len(call[t].todo) - 1
    BY <1>1, <2>1, HeadTailProperties
  <2>4. Len(call[t].todo) # 1 => Tail(call[t].todo) # <<>>
    <3> DEFINE rest == Tail(call[t].todo)
    <3>1. Len(rest) = Len(call[t].todo) - 1
      BY <2>3
    <3> HIDE DEF rest
    <3>2. rest = <<>> => Len(rest) = 0
      BY EmptySeq
    <3>3. Len(call[t].todo) # 1 => rest # <<>>
      BY <2>2, <3>1, <3>2
    <3> QED BY <3>3 DEF rest
  <2> QED BY <2>1, <2>3, <2>4
<1>3. schemas' \in [Attribute -> Schema \ Reserved]
  BY <1>2 DEF Assign, TypeOK, Attribute
<1>4. CASE Len(call[t].todo) = 1
  <2>1. EndCall(t)
    BY <1>4 DEF Assign
  <2>2. Outside(t)
    BY <1>1, <2>1, EndCallStep DEF Assign, Outside, Visiting, NoCall, SetSchemaCall
  <2> QED BY <1>3, <2>1, <2>2, EndCallStep DEF Assign, TypeOK
<1>5. CASE Len(call[t].todo) # 1
  <2> DEFINE c == [call[t] EXCEPT !.todo = Tail(@)]
  <2>1. c \in SetSchemaCall /\ c.todo # <<>>
    BY <1>1, <1>2, <1>5 DEF SetSchemaCall
  <2>2. call' = [call EXCEPT ![t] = c] /\ UNCHANGED overlapped
    BY <1>5 DEF Assign
  <2>3. /\ call' \in [Thread -> Call] /\ call'[t] = c
        /\ \A u \in Thread \ {t} : call'[u] = call[u]
    BY <2>1, <2>2 DEF TypeOK, Call
  <2>4. TypeOK'
    BY <1>3, <2>2, <2>3 DEF Assign, TypeOK
  <2>5. SetSchemaGoesOn'
    BY <2>1, <2>3 DEF SetSchemaGoesOn, Running
  <2>6. Outside(t)
    BY <1>1, <2>1, <2>3 DEF Assign, Outside, Visiting, SetSchemaCall
  <2> QED BY <2>4, <2>5, <2>6
<1> QED BY <1>4, <1>5

LEMMA ParseStart ==
  ASSUME TypeOK, SetSchemaGoesOn, NEW t \in Thread, NEW annotate \in BOOLEAN, Parse(t, annotate)
  PROVE  TypeOK' /\ SetSchemaGoesOn' /\ Outside(t)
<1> DEFINE c == [name |-> "parse", seen |-> {},
                 todo |-> IF annotate THEN ParseOrder ELSE RemoveAt(ParseOrder, 2)]
<1>1. c \in ParseCall
  BY OrdersType DEF ParseCall
<1>2. c \in Call \ SetSchemaCall /\ c # NoCall /\ c.name # "visit"
  BY <1>1 DEF Call, SetSchemaCall, NoCall
<1> QED BY <1>2, StartCallStep DEF Parse

LEMMA ParseGoesOn ==
  ASSUME TypeOK, SetSchemaGoesOn, NEW t \in Thread, ParseStep(t)
  PROVE  TypeOK' /\ SetSchemaGoesOn' /\ Outside(t)
<1>1. call[t] \in ParseCall
  BY CallKinds DEF ParseStep, Running, TypeOK
<1>2. CASE call[t].todo = <<>>
  <2>1. EndCall(t)
    BY <1>2 DEF ParseStep
  <2>2. Outside(t)
    BY <1>1, <2>1, EndCallStep DEF ParseStep, Outside, Visiting, NoCall, ParseCall
  <2> QED BY <2>1, <2>2, EndCallStep DEF ParseStep, TypeOK
<1>3. CASE call[t].todo # <<>>
  <2> DEFINE c == [call[t] EXCEPT !.todo = Tail(@), !.seen = @ \cup {schemas[Head(call[t].todo)]}]
  <2>1. Head(call[t].todo) \in ParseAttribute /\ Tail(call[t].todo) \in Seq(ParseAttribute)
    BY <1>1, <1>3 DEF ParseCall
  <2>2. c \in ParseCall
    <3>1. schemas[Head(call[t].todo)] \in Schema
      BY <2>1 DEF TypeOK, Attribute, SetAttribute
    <3> QED BY <1>1, <2>1, <3>1 DEF ParseCall
  <2>3. call' = [call EXCEPT ![t] = c] /\ UNCHANGED overlapped
    BY <1>3 DEF ParseStep
  <2>4. /\ call' \in [Thread -> Call] /\ call'[t] = c
        /\ \A u \in Thread \ {t} : call'[u] = call[u]
    BY <2>2, <2>3 DEF TypeOK, Call
  <2>5. TypeOK'
    BY <2>3, <2>4 DEF ParseStep, TypeOK
  <2>6. SetSchemaGoesOn'
    BY <2>2, <2>4 DEF SetSchemaGoesOn, Running, ParseCall
  <2>7. Outside(t)
    BY <1>1, <2>2, <2>4 DEF ParseStep, Outside, Visiting, ParseCall
  <2> QED BY <2>5, <2>6, <2>7
<1> QED BY <1>2, <1>3

LEMMA ParseFails ==
  ASSUME TypeOK, SetSchemaGoesOn, NEW t \in Thread, ParseRaises(t)
  PROVE  TypeOK' /\ SetSchemaGoesOn' /\ Outside(t)
<1>1. call[t] \in ParseCall /\ EndCall(t)
  BY CallKinds DEF ParseRaises, Running, TypeOK
<1>2. Outside(t)
  BY <1>1, EndCallStep DEF ParseRaises, Outside, Visiting, NoCall, ParseCall
<1> QED BY <1>1, <1>2, EndCallStep DEF ParseRaises, TypeOK

LEMMA VisitStart ==
  ASSUME TypeOK, SetSchemaGoesOn, HelperAssumption, NEW t \in Thread, NEW r \in Resolver,
         NEW m \in Mapping \cup {None}, ComputeSolutions(t, r, m)
  PROVE  TypeOK' /\ SetSchemaGoesOn' /\ Outside(t)
<1> DEFINE c == [name |-> "visit", resolver |-> r, mapping |-> m,
                 pc |-> "waiting", reads |-> 0, seen |-> {}]
<1>1. c \in VisitCall
  BY DEF VisitCall, HelperAssumption
<1>2. c \in Call \ SetSchemaCall /\ c # NoCall
  BY <1>1 DEF Call, SetSchemaCall, NoCall
<1> QED BY <1>2, StartCallStep DEF ComputeSolutions

-----------------------------------------------------------------------------
\* Steps of a visit.

\* Only one thread is in the "with" of a resolver.
LEMMA OneVisitor ==
  ASSUME VisitorHoldsLock, NEW t \in Thread, NEW u \in Thread, NEW r \in Resolver,
         Visiting(t, r, "locked") \/ Visiting(t, r, "visiting"),
         Visiting(u, r, "locked") \/ Visiting(u, r, "visiting")
  PROVE  u = t
  BY DEF VisitorHoldsLock

\* The call of t is the only one that changes, and stays a visit.
LEMMA VisitGoesOn ==
  ASSUME TypeOK, SetSchemaGoesOn, NEW t \in Thread, NEW c \in VisitCall,
         call' = [call EXCEPT ![t] = c]
  PROVE  /\ call' \in [Thread -> Call]
         /\ call'[t] = c
         /\ \A u \in Thread \ {t} : call'[u] = call[u]
         /\ SetSchemaGoesOn'
<1>1. /\ call' \in [Thread -> Call] /\ call'[t] = c
      /\ \A u \in Thread \ {t} : call'[u] = call[u]
  BY DEF TypeOK, Call
<1> QED BY <1>1 DEF SetSchemaGoesOn, Running, VisitCall

LEMMA AcquireStep ==
  ASSUME HelperInv, HelperAssumption, NEW t \in Thread, NEW r \in Resolver, Acquire(t, r)
  PROVE  HelperInv'
<1> USE DEF HelperInv
<1> DEFINE c == [call[t] EXCEPT !.pc = "locked"]
<1>1. call[t] \in VisitCall /\ call[t].resolver = r /\ call[t].pc = "waiting"
  BY CallKinds DEF Acquire, Visiting, TypeOK
<1>2. c \in VisitCall /\ c.resolver = r /\ c.pc = "locked"
  BY <1>1 DEF VisitCall
<1>3. /\ call' \in [Thread -> Call] /\ call'[t] = c /\ SetSchemaGoesOn'
      /\ \A u \in Thread \ {t} : call'[u] = call[u]
  BY <1>2, VisitGoesOn DEF Acquire
<1> HIDE DEF c
<1>4. TypeOK'
  BY <1>3 DEF Acquire, TypeOK
<1>5. VisitorHoldsLock'
  <2> SUFFICES ASSUME NEW u \in Thread, NEW q \in Resolver,
                      Visiting(u, q, "locked")' \/ Visiting(u, q, "visiting")'
               PROVE  lock'[q] = u
    BY DEF VisitorHoldsLock
  <2>1. CASE u = t
    BY <2>1, <1>2, <1>3 DEF Acquire, Visiting, TypeOK
  <2>2. CASE u # t
    <3>1. Visiting(u, q, "locked") \/ Visiting(u, q, "visiting")
      BY <2>2, <1>3 DEF Visiting
    <3>2. lock[q] = u
      BY <3>1 DEF VisitorHoldsLock
    <3>3. q # r
      BY <3>2 DEF Acquire, HelperAssumption
    <3> QED BY <3>2, <3>3 DEF Acquire, TypeOK
  <2> QED BY <2>1, <2>2
<1>6. \A u \in Thread, q \in Resolver :
        Visiting(u, q, "visiting")' => Visiting(u, q, "visiting") /\ call'[u] = call[u]
  BY <1>2, <1>3 DEF Visiting
<1>7. VisitKeepsItsArguments'
  BY <1>6 DEF Acquire, VisitKeepsItsArguments
<1>8. \A u \in Thread, q \in Resolver :
        Visiting(u, q, "visiting") => Visiting(u, q, "visiting")' /\ call'[u] = call[u]
  BY <1>1, <1>3 DEF Visiting
<1>9. MappingHasItsVisit'
  BY <1>8 DEF Acquire, MappingHasItsVisit
<1> QED BY <1>3, <1>4, <1>5, <1>7, <1>9

LEMMA VisitStep ==
  ASSUME HelperInv, HelperAssumption, NEW t \in Thread, NEW r \in Resolver, Visit(t, r)
  PROVE  HelperInv'
<1> USE DEF HelperInv
<1> DEFINE c == [call[t] EXCEPT !.pc = "visiting"]
<1>1. call[t] \in VisitCall /\ call[t].resolver = r /\ call[t].pc = "locked"
  BY CallKinds DEF Visit, Visiting, TypeOK
<1>2. c \in VisitCall /\ c.resolver = r /\ c.pc = "visiting" /\ c.mapping = call[t].mapping
      /\ c.name = "visit"
  BY <1>1 DEF VisitCall
<1>3. /\ call' \in [Thread -> Call] /\ call'[t] = c /\ SetSchemaGoesOn'
      /\ \A u \in Thread \ {t} : call'[u] = call[u]
  BY <1>2, VisitGoesOn DEF Visit
<1> HIDE DEF c
<1>4. call[t].mapping \in Mapping \cup {None}
  BY <1>1 DEF VisitCall
<1>5. TypeOK'
  BY <1>3, <1>4 DEF Visit, TypeOK
<1>6. VisitorHoldsLock'
  BY <1>1, <1>2, <1>3 DEF Visit, VisitorHoldsLock, Visiting
<1>7. /\ visitor'[r] = t
      /\ uid_func'[r] = IF call[t].mapping = None THEN uid_func[r] ELSE call[t].mapping
      /\ \A q \in Resolver \ {r} : visitor'[q] = visitor[q] /\ uid_func'[q] = uid_func[q]
  BY DEF Visit, TypeOK
<1>8. VisitKeepsItsArguments'
  <2> SUFFICES ASSUME NEW u \in Thread, NEW q \in Resolver, Visiting(u, q, "visiting")'
               PROVE  visitor'[q] = u /\ (call'[u].mapping # None => uid_func'[q] = call'[u].mapping)
    BY DEF VisitKeepsItsArguments
  <2>1. CASE u = t
    BY <2>1, <1>2, <1>3, <1>7 DEF Visiting
  <2>2. CASE u # t
    <3>1. Visiting(u, q, "visiting") /\ call'[u] = call[u]
      BY <2>2, <1>3 DEF Visiting
    <3>2. q # r
      BY <2>2, <3>1, OneVisitor DEF Visit
    <3> QED BY <3>1, <3>2, <1>7 DEF VisitKeepsItsArguments
  <2> QED BY <2>1, <2>2
<1>9. MappingHasItsVisit'
  <2> SUFFICES ASSUME NEW q \in Resolver, q \notin raised, uid_func'[q] \notin {DefaultMapping, None}
               PROVE  \E u \in Thread : Visiting(u, q, "visiting")' /\ call'[u].mapping # None
    BY DEF MappingHasItsVisit, Visit
  <2>1. CASE q = r /\ call[t].mapping # None
    BY <2>1, <1>2, <1>3 DEF Visiting
  <2>2. CASE ~(q = r /\ call[t].mapping # None)
    <3>1. uid_func[q] = uid_func'[q]
      BY <2>2, <1>7
    <3>2. PICK u \in Thread : Visiting(u, q, "visiting") /\ call[u].mapping # None
      BY <3>1 DEF MappingHasItsVisit
    <3>3. u # t
      BY <3>2, <1>1 DEF Visiting
    <3> QED BY <3>2, <3>3, <1>3 DEF Visiting
  <2> QED BY <2>1, <2>2
<1> QED BY <1>3, <1>5, <1>6, <1>8, <1>9

LEMMA ReadStep ==
  ASSUME HelperInv, HelperAssumption, NEW t \in Thread, NEW r \in Resolver, ReadSchema(t, r)
  PROVE  HelperInv'
<1> USE DEF HelperInv
<1>1. PICK a \in Fields(r) :
        call' = [call EXCEPT ![t].reads = @ + 1, ![t].seen = @ \cup {schemas[a]}]
  BY DEF ReadSchema
<1> DEFINE c == [call[t] EXCEPT !.reads = @ + 1, !.seen = @ \cup {schemas[a]}]
<1>2. call[t] \in VisitCall /\ call[t].reads < MaxReads
  BY CallKinds DEF ReadSchema, Visiting, TypeOK
<1>3. schemas[a] \in Schema
  BY DEF TypeOK, Attribute, SetAttribute, Resolver
<1>4. call[t].reads + 1 \in 0 .. MaxReads
  BY <1>2 DEF VisitCall, HelperAssumption
<1>5. c \in VisitCall /\ c.resolver = call[t].resolver /\ c.pc = call[t].pc
      /\ c.mapping = call[t].mapping /\ c.name = call[t].name
  BY <1>2, <1>3, <1>4 DEF VisitCall
<1>6. /\ call' \in [Thread -> Call] /\ call'[t] = c /\ SetSchemaGoesOn'
      /\ \A u \in Thread \ {t} : call'[u] = call[u]
  BY <1>1, <1>5, VisitGoesOn
<1> HIDE DEF c
<1>7. TypeOK'
  BY <1>6 DEF ReadSchema, TypeOK
<1>8. \A u \in Thread, q \in Resolver, pc \in {"locked", "visiting"} :
        /\ Visiting(u, q, pc)' = Visiting(u, q, pc)
        /\ Visiting(u, q, pc) => call'[u].mapping = call[u].mapping
  BY <1>5, <1>6 DEF Visiting
<1>9. VisitorHoldsLock'
  BY <1>8 DEF ReadSchema, VisitorHoldsLock
<1>10. VisitKeepsItsArguments'
  BY <1>8 DEF ReadSchema, VisitKeepsItsArguments
<1>11. MappingHasItsVisit'
  BY <1>8 DEF ReadSchema, MappingHasItsVisit
<1> QED BY <1>6, <1>7, <1>9, <1>10, <1>11

\* A visit that ends: the lock is released, and the mapping is reset or known to stay.
LEMMA EndVisitStep ==
  ASSUME HelperInv, HelperAssumption, NEW t \in Thread, NEW r \in Resolver,
         Visiting(t, r, "visiting"), EndCall(t),
         lock' = [lock EXCEPT ![r] = NoOne],
         UNCHANGED <<schemas, visitor, changes, raced>>,
         raised' \in SUBSET Resolver, raised \subseteq raised',
         uid_func' \in [Resolver -> Mapping \cup {DefaultMapping, None}],
         \A q \in Resolver \ {r} : uid_func'[q] = uid_func[q],
         \/ call[t].mapping = None /\ uid_func'[r] = uid_func[r]
         \/ uid_func'[r] = None
         \/ r \in raised'
  PROVE  HelperInv'
<1> USE DEF HelperInv
<1>1. /\ call' \in [Thread -> Call] /\ call'[t] = NoCall /\ SetSchemaGoesOn'
      /\ overlapped' \subseteq Thread
      /\ \A u \in Thread \ {t} : call'[u] = call[u]
  BY EndCallStep
<1>2. TypeOK'
  BY <1>1 DEF TypeOK
<1>3. \A u \in Thread, q \in Resolver, pc \in {"locked", "visiting"} :
        Visiting(u, q, pc)' => Visiting(u, q, pc) /\ u # t /\ call'[u] = call[u]
  BY <1>1 DEF Visiting, NoCall
<1>4. \A u \in Thread, q \in Resolver, pc \in {"locked", "visiting"} :
        Visiting(u, q, pc)' => q # r
  BY <1>3, OneVisitor
<1>5. VisitorHoldsLock'
  BY <1>3, <1>4 DEF VisitorHoldsLock, TypeOK
<1>6. VisitKeepsItsArguments'
  BY <1>3, <1>4 DEF VisitKeepsItsArguments
<1>7. MappingHasItsVisit'
  <2> SUFFICES ASSUME NEW q \in Resolver, q \notin raised', uid_func'[q] \notin {DefaultMapping, None}
               PROVE  \E u \in Thread : Visiting(u, q, "visiting")' /\ call'[u].mapping # None
    BY DEF MappingHasItsVisit
  <2>1. uid_func[q] = uid_func'[q] /\ (q = r => call[t].mapping = None)
    OBVIOUS
  <2>2. PICK u \in Thread : Visiting(u, q, "visiting") /\ call[u].mapping # None
    BY <2>1 DEF MappingHasItsVisit
  <2>3. u # t
    BY <2>1, <2>2 DEF Visiting
  <2> QED BY <1>1, <2>2, <2>3 DEF Visiting
<1> QED BY <1>1, <1>2, <1>5, <1>6, <1>7

LEMMA ReturnStep ==
  ASSUME HelperInv, HelperAssumption, NEW t \in Thread, NEW r \in Resolver, Return(t, r)
  PROVE  HelperInv'
<1>1. TypeOK
  BY DEF HelperInv
<1>2. /\ uid_func' \in [Resolver -> Mapping \cup {DefaultMapping, None}]
      /\ \A q \in Resolver \ {r} : uid_func'[q] = uid_func[q]
      /\ uid_func'[r] = IF call[t].mapping = None THEN uid_func[r] ELSE None
  BY <1>1 DEF Return, TypeOK
<1>3. raised' = raised /\ raised \in SUBSET Resolver
  BY <1>1 DEF Return, TypeOK
<1> QED BY <1>2, <1>3, EndVisitStep DEF Return

LEMMA RaiseStep ==
  ASSUME HelperInv, HelperAssumption, NEW t \in Thread, NEW r \in Resolver, Raise(t, r)
  PROVE  HelperInv'
<1>1. TypeOK
  BY DEF HelperInv
<1>2. /\ uid_func' = uid_func
      /\ raised' \in SUBSET Resolver /\ raised \subseteq raised'
      /\ call[t].mapping = None \/ r \in raised'
  BY <1>1 DEF Raise, TypeOK
<1> QED BY <1>1, <1>2, EndVisitStep DEF Raise, TypeOK

-----------------------------------------------------------------------------
LEMMA HelperInvInit ==
  ASSUME HelperAssumption, Init
  PROVE  HelperInv
<1>1. TypeOK
  <2>1. call \in [Thread -> Call]
    BY DEF Init, Call
  <2>2. changes \in 0 .. MaxChanges
    BY DEF Init, HelperAssumption
  <2>3. schemas \in [Attribute -> Schema \ Reserved]
    BY DEF Init, HelperAssumption
  <2> QED BY <2>1, <2>2, <2>3 DEF Init, TypeOK
<1>2. \A t \in Thread : call[t] = NoCall
  BY DEF Init
<1> QED BY <1>1, <1>2 DEF Init, HelperInv, SetSchemaGoesOn, VisitorHoldsLock,
          VisitKeepsItsArguments, MappingHasItsVisit, Visiting, Running, NoCall

LEMMA HelperInvStep ==
  ASSUME HelperAssumption, HelperInv, [Next]_vars
  PROVE  HelperInv'
<1> USE DEF HelperInv
<1>1. ASSUME NEW t \in Thread, NEW s \in Schema, SetSchema(t, s)  PROVE HelperInv'
  BY <1>1, SetSchemaStep, OutsideStep
<1>2. ASSUME NEW t \in Thread, Assign(t)  PROVE HelperInv'
  BY <1>2, AssignStep, OutsideStep
<1>3. ASSUME NEW t \in Thread, NEW annotate \in BOOLEAN, Parse(t, annotate)  PROVE HelperInv'
  BY <1>3, ParseStart, OutsideStep
<1>4. ASSUME NEW t \in Thread, ParseStep(t)  PROVE HelperInv'
  BY <1>4, ParseGoesOn, OutsideStep
<1>5. ASSUME NEW t \in Thread, ParseRaises(t)  PROVE HelperInv'
  BY <1>5, ParseFails, OutsideStep
<1>6. ASSUME NEW t \in Thread, NEW r \in Resolver, NEW m \in Mapping \cup {None},
             ComputeSolutions(t, r, m)
      PROVE  HelperInv'
  BY <1>6, VisitStart, OutsideStep
<1>7. ASSUME NEW t \in Thread, NEW r \in Resolver,
             Acquire(t, r) \/ Visit(t, r) \/ ReadSchema(t, r) \/ Return(t, r) \/ Raise(t, r)
      PROVE  HelperInv'
  BY <1>7, AcquireStep, VisitStep, ReadStep, ReturnStep, RaiseStep
<1>8. CASE UNCHANGED vars
  BY <1>8 DEF vars, TypeOK, SetSchemaGoesOn, VisitorHoldsLock, VisitKeepsItsArguments,
              MappingHasItsVisit, Visiting, Running
<1> QED BY <1>1, <1>2, <1>3, <1>4, <1>5, <1>6, <1>7, <1>8 DEF Next, Proceed

\* The lock of a resolver goes with its attributes, in every behaviour of any number
\* of threads.
THEOREM LockGoesWithResolver == Spec => []HelperInv
<1>1. HelperAssumption
  BY HelperAssumption
<1>2. Init => HelperInv
  BY <1>1, HelperInvInit
<1>3. HelperInv /\ [Next]_vars => HelperInv'
  BY <1>1, HelperInvStep
<1> QED BY <1>2, <1>3, PTL DEF Spec

\* A resolver works with the arguments of the visit that runs in it.
THEOREM VisitsKeepApart == Spec => []VisitKeepsItsArguments
<1>1. HelperInv => VisitKeepsItsArguments
  BY DEF HelperInv
<1> QED BY <1>1, LockGoesWithResolver, PTL

\* A call with no mapping never works with the one of another call that has not raised.
THEOREM MappingsDoNotLeak == Spec => []NoForeignMapping
<1>1. HelperInv => NoForeignMapping
  <2> SUFFICES ASSUME HelperInv, NEW t \in Thread, NEW r \in Resolver,
                      Visiting(t, r, "visiting"), call[t].mapping = None, r \notin raised
               PROVE  uid_func[r] \in {DefaultMapping, None}
    BY DEF NoForeignMapping
  <2>1. SUFFICES ASSUME NEW u \in Thread, Visiting(u, r, "visiting"), call[u].mapping # None
                 PROVE  FALSE
    BY DEF HelperInv, MappingHasItsVisit
  <2>2. u = t
    BY <2>1, OneVisitor DEF HelperInv
  <2> QED BY <2>1, <2>2
<1> QED BY <1>1, LockGoesWithResolver, PTL

-----------------------------------------------------------------------------
\* Calls and changes of the schema.

\* set_schema assigns every attribute that it reaches.
LEMMA SetOrderCovers ==
  /\ SetOrder \in Seq(SetAttribute) /\ Len(SetOrder) = 5
  /\ \A i \in 1 .. 5 : SetOrder[i] \in SetAttribute
  /\ \A a \in SetAttribute : \E i \in 1 .. 5 : SetOrder[i] = a
<1>1. SetOrder \in Seq(SetAttribute) /\ Len(SetOrder) = 5
  BY DEF SetOrder, SetAttribute, ParseAttribute, Fields
<1>2. /\ SetOrder[1] = <<"checker", "schema">> /\ SetOrder[2] = <<"annotator", "schema">>
      /\ SetOrder[3] = <<"analyser", "schema">> /\ SetOrder[4] = <<"analyser", "base_domain">>
      /\ SetOrder[5] = <<"analyser", "nonfinal_domain">>
  BY DEF SetOrder
<1>3. \A a \in SetAttribute : \E i \in 1 .. 5 : SetOrder[i] = a
  BY <1>2 DEF SetAttribute, ParseAttribute, Fields
<1>4. \A i \in 1 .. 5 : SetOrder[i] \in SetAttribute
  BY <1>1
<1> QED BY <1>1, <1>3, <1>4

\* No attribute of the other resolver is among them.
LEMMA ResolversApart == SetAttribute \cap Fields("itr_analyser") = {}
  BY DEF SetAttribute, ParseAttribute, Fields

\* A step of a call that is not set_schema: what it shows afterwards is enough.
LEMMA CallStep ==
  ASSUME SchemaInv, TypeOK, NEW t \in Thread,
         UNCHANGED <<schemas, raced>>,
         call' \in [Thread -> Call],
         \A u \in Thread \ {t} : call'[u] = call[u],
         overlapped \ {t} \subseteq overlapped',
         call[t].name # "set_schema", call'[t].name # "set_schema",
         (~raced /\ SeenIsPresent /\ call'[t].name \in {"parse", "visit"} /\ t \notin overlapped')
           => /\ Running("set_schema") = {}
              /\ call'[t].seen \subseteq {schemas[a] : a \in Readable(call'[t])}
  PROVE  SchemaInv'
<1>1. Running("set_schema")' = Running("set_schema")
  BY DEF Running
<1>2. \A u \in Running("set_schema") : call'[u] = call[u]
  BY DEF Running
<1>3. ASSUME ~raced, ChangeGoesInOrder  PROVE ChangeGoesInOrder'
  <2> SUFFICES ASSUME NEW u \in Running("set_schema")
               PROVE  /\ \A v \in Running("set_schema") : v = u
                      /\ \E k \in 1 .. Len(SetOrder) :
                           /\ call[u].todo = SubSeq(SetOrder, k, Len(SetOrder))
                           /\ \A i \in 1 .. k - 1 : schemas[SetOrder[i]] = call[u].schema
    BY <1>1, <1>2 DEF ChangeGoesInOrder
  <2> QED BY <1>3 DEF ChangeGoesInOrder
<1>4. ASSUME ~raced, SchemasAgree  PROVE SchemasAgree'
  BY <1>1, <1>4 DEF SchemasAgree
<1>5. ASSUME ~raced, SeenIsPresent  PROVE SeenIsPresent'
  <2> SUFFICES ASSUME NEW u \in Thread, call'[u].name \in {"parse", "visit"}, u \notin overlapped'
               PROVE  /\ Running("set_schema")' = {}
                      /\ call'[u].seen \subseteq {schemas'[a] : a \in Readable(call'[u])}
    BY DEF SeenIsPresent, Running, Readable
  <2>1. CASE u = t
    BY <1>1, <1>5, <2>1
  <2>2. CASE u # t
    <3>1. call'[u] = call[u] /\ u \notin overlapped
      BY <2>2
    <3>2. u \in (Running("parse") \cup Running("visit")) \ overlapped
      BY <3>1 DEF Running
    <3> QED BY <1>1, <1>5, <3>1, <3>2 DEF SeenIsPresent
  <2> QED BY <2>1, <2>2
<1> QED BY <1>3, <1>4, <1>5 DEF SchemaInv

LEMMA StartStep ==
  ASSUME SchemaInv, TypeOK, NEW t \in Thread, NEW c \in Call, StartCall(t, c),
         c.name \in {"parse", "visit"}, c.seen = {}, UNCHANGED <<schemas, raced>>
  PROVE  SchemaInv'
<1>1. /\ call' \in [Thread -> Call] /\ call'[t] = c /\ call[t] = NoCall
      /\ \A u \in Thread \ {t} : call'[u] = call[u]
      /\ overlapped \subseteq overlapped'
      /\ t \notin overlapped' => Running("set_schema") = {}
  BY DEF StartCall, TypeOK
<1> QED BY <1>1, CallStep DEF NoCall

LEMMA EndStep ==
  ASSUME SchemaInv, TypeOK, SetSchemaGoesOn, NEW t \in Thread, EndCall(t),
         call[t].name # "set_schema", UNCHANGED <<schemas, raced>>
  PROVE  SchemaInv'
<1>1. overlapped \ {t} \subseteq overlapped'
  BY DEF EndCall
<1> QED BY <1>1, EndCallStep, CallStep DEF NoCall

\* A visit goes on and reads nothing.
LEMMA GoesOnStep ==
  ASSUME SchemaInv, TypeOK, SetSchemaGoesOn, NEW t \in Thread, call[t] \in VisitCall, NEW c \in VisitCall,
         c.resolver = call[t].resolver, c.seen = call[t].seen,
         call' = [call EXCEPT ![t] = c], UNCHANGED <<schemas, overlapped, raced>>
  PROVE  SchemaInv'
<1>1. /\ call' \in [Thread -> Call] /\ call'[t] = c
      /\ \A u \in Thread \ {t} : call'[u] = call[u]
  BY DEF TypeOK, Call
<1>2. /\ call[t].name = "visit" /\ c.name = "visit"
      /\ Readable(c) = Readable(call[t])
  BY DEF VisitCall, Readable
<1>3. ASSUME SeenIsPresent, t \notin overlapped
      PROVE  Running("set_schema") = {} /\ call[t].seen \subseteq {schemas[a] : a \in Readable(call[t])}
  BY <1>2, <1>3 DEF SeenIsPresent, Running
<1> QED BY <1>1, <1>2, <1>3, CallStep

LEMMA ReadsStep ==
  ASSUME SchemaInv, HelperInv, HelperAssumption, NEW t \in Thread, NEW r \in Resolver, ReadSchema(t, r)
  PROVE  SchemaInv'
<1>1. PICK a \in Fields(r) :
        call' = [call EXCEPT ![t].reads = @ + 1, ![t].seen = @ \cup {schemas[a]}]
  BY DEF ReadSchema
<1> DEFINE c == [call[t] EXCEPT !.reads = @ + 1, !.seen = @ \cup {schemas[a]}]
<1>2. call[t] \in VisitCall /\ call[t].reads < MaxReads /\ call[t].resolver = r
  BY CallKinds DEF ReadSchema, Visiting, HelperInv, TypeOK
<1>3. schemas[a] \in Schema
  BY DEF HelperInv, TypeOK, Attribute, SetAttribute, Resolver
<1>4. call[t].reads + 1 \in 0 .. MaxReads
  BY <1>2 DEF VisitCall, HelperAssumption
<1>5. c \in VisitCall /\ c.resolver = r /\ c.name = "visit"
      /\ c.seen = call[t].seen \cup {schemas[a]}
  BY <1>2, <1>3, <1>4 DEF VisitCall
<1>6. /\ call' \in [Thread -> Call] /\ call'[t] = c
      /\ \A u \in Thread \ {t} : call'[u] = call[u]
  BY <1>1, <1>5 DEF HelperInv, TypeOK, Call
<1> HIDE DEF c
<1>7. call[t].name = "visit" /\ Readable(c) = Fields(r) /\ Readable(call[t]) = Fields(r)
  BY <1>2, <1>5 DEF VisitCall, Readable
<1>8. ASSUME SeenIsPresent, t \notin overlapped
      PROVE  Running("set_schema") = {} /\ call[t].seen \subseteq {schemas[b] : b \in Fields(r)}
  BY <1>7, <1>8 DEF SeenIsPresent, Running
<1>9. schemas[a] \in {schemas[b] : b \in Fields(r)}
  OBVIOUS
<1>10. UNCHANGED <<schemas, overlapped, raced>>
  BY DEF ReadSchema
<1> QED BY <1>5, <1>6, <1>7, <1>8, <1>9, <1>10, CallStep DEF HelperInv

LEMMA ParseReadsStep ==
  ASSUME SchemaInv, HelperInv, NEW t \in Thread, ParseStep(t)
  PROVE  SchemaInv'
<1> USE DEF HelperInv
<1>1. call[t] \in ParseCall /\ call[t].name = "parse" /\ UNCHANGED <<schemas, raced>>
  BY CallKinds DEF ParseStep, Running, TypeOK
<1>2. CASE call[t].todo = <<>>
  BY <1>1, <1>2, EndStep DEF ParseStep
<1>3. CASE call[t].todo # <<>>
  <2> DEFINE c == [call[t] EXCEPT !.todo = Tail(@), !.seen = @ \cup {schemas[Head(call[t].todo)]}]
  <2>1. Head(call[t].todo) \in ParseAttribute /\ Tail(call[t].todo) \in Seq(ParseAttribute)
    BY <1>1, <1>3 DEF ParseCall
  <2>2. schemas[Head(call[t].todo)] \in Schema
    BY <2>1 DEF TypeOK, Attribute, SetAttribute
  <2>3. c \in ParseCall /\ c.name = "parse" /\ c.seen = call[t].seen \cup {schemas[Head(call[t].todo)]}
    BY <1>1, <2>1, <2>2 DEF ParseCall
  <2>4. call' = [call EXCEPT ![t] = c] /\ UNCHANGED overlapped
    BY <1>3 DEF ParseStep
  <2>5. /\ call' \in [Thread -> Call] /\ call'[t] = c
        /\ \A u \in Thread \ {t} : call'[u] = call[u]
    BY <2>3, <2>4 DEF TypeOK, Call
  <2> HIDE DEF c
  <2>6. Readable(c) = ParseAttribute /\ Readable(call[t]) = ParseAttribute
    BY <1>1, <2>3 DEF Readable
  <2>7. ASSUME SeenIsPresent, t \notin overlapped
        PROVE  Running("set_schema") = {} /\ call[t].seen \subseteq {schemas[b] : b \in ParseAttribute}
    BY <1>1, <2>6, <2>7 DEF SeenIsPresent, Running
  <2>8. schemas[Head(call[t].todo)] \in {schemas[b] : b \in ParseAttribute}
    BY <2>1
  <2> QED BY <1>1, <2>3, <2>4, <2>5, <2>6, <2>7, <2>8, CallStep
<1> QED BY <1>2, <1>3

\* A change begins: the calls that run from now on until they end are overlapped.
LEMMA ChangeStarts ==
  ASSUME SchemaInv, HelperInv, NEW t \in Thread, NEW s \in Schema, SetSchema(t, s)
  PROVE  SchemaInv'
<1> DEFINE c == [name |-> "set_schema", schema |-> s, todo |-> SetOrder]
<1>1. c \in Call
  BY OrdersType DEF SetSchema, Call, SetSchemaCall
<1>2. /\ call'[t] = c /\ call[t] = NoCall
      /\ \A u \in Thread \ {t} : call'[u] = call[u]
  BY <1>1 DEF SetSchema, HelperInv, TypeOK
<1>3. c.name = "set_schema" /\ c.schema = s /\ c.todo = SetOrder
  OBVIOUS
<1> HIDE DEF c
<1>4. ASSUME ~raced'  PROVE ChangeGoesInOrder'
  <2>1. \A u \in Thread : call'[u].name = "set_schema" => u = t
    BY <1>2, <1>4 DEF SetSchema, Running
  <2>2. SetOrder = SubSeq(SetOrder, 1, Len(SetOrder)) /\ 1 \in 1 .. Len(SetOrder)
    BY SetOrderCovers
  <2>3. \A i \in 1 .. 1 - 1 : schemas'[SetOrder[i]] = s
    OBVIOUS
  <2> QED BY <1>2, <1>3, <2>1, <2>2, <2>3 DEF ChangeGoesInOrder, Running
<1>5. SchemasAgree'
  BY <1>2, <1>3 DEF SchemasAgree, Running
<1>6. SeenIsPresent'
  <2> SUFFICES ASSUME NEW u \in Thread, call'[u].name \in {"parse", "visit"}
               PROVE  u \in overlapped'
    BY DEF SeenIsPresent, Running
  <2>1. u # t /\ call'[u] = call[u]
    BY <1>2, <1>3
  <2> QED BY <2>1 DEF SetSchema, Running
<1>7. \A a \in Fields("itr_analyser") : schemas'[a] = FirstSchema
  BY DEF SetSchema, SchemaInv
<1> QED BY <1>4, <1>5, <1>6, <1>7 DEF SchemaInv

\* A change that no other overlaps has assigned one attribute more.
LEMMA ChangeGoesOn ==
  ASSUME SchemaInv, HelperInv, NEW t \in Thread, Assign(t)
  PROVE  SchemaInv'
<1> USE DEF HelperInv
<1> DEFINE n == Len(SetOrder)
<1>1. call[t] \in SetSchemaCall /\ call[t].name = "set_schema" /\ call[t].todo # <<>>
  BY CallKinds DEF Assign, Running, TypeOK, SetSchemaGoesOn
<1>2. Head(call[t].todo) \in SetAttribute
  BY <1>1 DEF SetSchemaCall
<1>3. /\ schemas'[Head(call[t].todo)] = call[t].schema
      /\ \A a \in Attribute : a # Head(call[t].todo) => schemas'[a] = schemas[a]
  BY <1>2 DEF Assign, TypeOK, Attribute
<1>4. \A a \in Fields("itr_analyser") : schemas'[a] = FirstSchema
  BY <1>2, <1>3, ResolversApart DEF SchemaInv, Attribute
<1>5. /\ \A u \in Thread \ {t} : call'[u] = call[u]
      /\ call'[t] = IF Len(call[t].todo) = 1 THEN NoCall ELSE [call[t] EXCEPT !.todo = Tail(@)]
      /\ overlapped \ {t} \subseteq overlapped'
  BY DEF Assign, EndCall, TypeOK
<1>6. call'[t].name \in {"none", "set_schema"}
  BY <1>1, <1>5 DEF NoCall, SetSchemaCall
<1>7. ASSUME ~raced  PROVE (ChangeGoesInOrder /\ SchemasAgree /\ SeenIsPresent)'
  <2>1. PICK k \in 1 .. n : /\ call[t].todo = SubSeq(SetOrder, k, n)
                           /\ \A i \in 1 .. k - 1 : schemas[SetOrder[i]] = call[t].schema
    BY <1>1, <1>7 DEF SchemaInv, ChangeGoesInOrder, Running
  <2>2. \A u \in Thread : call'[u].name = "set_schema" => u = t
    BY <1>1, <1>5, <1>7 DEF SchemaInv, ChangeGoesInOrder, Running
  <2>3. /\ Head(call[t].todo) = SetOrder[k] /\ Tail(call[t].todo) = SubSeq(SetOrder, k + 1, n)
        /\ Len(call[t].todo) = 6 - k /\ n = 5
    <3>1. n = 5 /\ k \in 1 .. Len(SetOrder) /\ Len(SetOrder) \in k .. Len(SetOrder)
      BY <2>1, SetOrderCovers
    <3>2. SetOrder \in Seq(SetAttribute)
      BY SetOrderCovers
    <3>3. /\ Head(SubSeq(SetOrder, k, Len(SetOrder))) = SetOrder[k]
          /\ Tail(SubSeq(SetOrder, k, Len(SetOrder))) = SubSeq(SetOrder, k + 1, Len(SetOrder))
      BY ONLY <3>1, <3>2, HeadTailOfSubSeq
    <3>4. Len(SubSeq(SetOrder, k, Len(SetOrder))) = 6 - k
      BY <3>1, <3>2
    <3> QED BY <2>1, <3>1, <3>3, <3>4
  <2>4. \A i \in 1 .. k : schemas'[SetOrder[i]] = call[t].schema
    <3> SUFFICES ASSUME NEW i \in 1 .. k  PROVE schemas'[SetOrder[i]] = call[t].schema
      OBVIOUS
    <3>1. SetOrder[i] \in Attribute
      BY <2>3, SetOrderCovers DEF Attribute
    <3>2. CASE SetOrder[i] = Head(call[t].todo)
      BY <3>2, <1>3
    <3>3. CASE SetOrder[i] # Head(call[t].todo)
      BY <3>1, <3>3, <1>3, <2>1, <2>3
    <3> QED BY <3>2, <3>3
  <2>5. CASE Len(call[t].todo) = 1
    <3>0. k = 5
      BY <2>3, <2>5
    <3>1. call'[t] = NoCall
      BY <2>5, <1>5
    <3>2. ChangeGoesInOrder'
      BY <2>2, <3>1 DEF ChangeGoesInOrder, Running, NoCall
    <3>3. \A a \in SetAttribute : schemas'[a] = call[t].schema
      BY <2>4, <3>0, SetOrderCovers
    <3> QED BY <3>2, <3>3, <1>1, <1>5, <1>6, <1>7 DEF SchemasAgree, SeenIsPresent, SchemaInv, Running
  <2>6. CASE Len(call[t].todo) # 1
    <3>1. /\ call'[t].name = "set_schema" /\ call'[t].schema = call[t].schema
          /\ call'[t].todo = SubSeq(SetOrder, k + 1, n)
      BY <2>3, <2>6, <1>1, <1>5 DEF SetSchemaCall
    <3>2. k + 1 \in 1 .. n /\ (k + 1) - 1 = k
      BY <2>3, <2>6
    <3>3. ChangeGoesInOrder'
      BY <2>2, <2>4, <3>1, <3>2 DEF ChangeGoesInOrder, Running
    <3>4. SchemasAgree'
      BY <3>1 DEF SchemasAgree, Running
    <3> QED BY <3>3, <3>4, <1>1, <1>5, <1>6, <1>7 DEF SeenIsPresent, SchemaInv, Running
  <2> QED BY <2>5, <2>6
<1>8. raced' = raced
  BY DEF Assign
<1> QED BY <1>4, <1>7, <1>8 DEF SchemaInv

\* A visit takes its lock, or keeps its arguments.
LEMMA TakesLockStep ==
  ASSUME SchemaInv, HelperInv, NEW t \in Thread, NEW r \in Resolver, Acquire(t, r) \/ Visit(t, r)
  PROVE  SchemaInv'
<1> USE DEF HelperInv
<1>1. call[t] \in VisitCall
  BY CallKinds DEF Acquire, Visit, Visiting, TypeOK
<1>2. PICK pc \in {"locked", "visiting"} : call' = [call EXCEPT ![t].pc = pc]
  BY DEF Acquire, Visit
<1> DEFINE c == [call[t] EXCEPT !.pc = pc]
<1>3. c \in VisitCall /\ c.resolver = call[t].resolver /\ c.seen = call[t].seen
  BY <1>1 DEF VisitCall
<1>4. call' = [call EXCEPT ![t] = c] /\ UNCHANGED <<schemas, overlapped, raced>>
  BY <1>2 DEF Acquire, Visit
<1> QED BY <1>1, <1>3, <1>4, GoesOnStep

-----------------------------------------------------------------------------
LEMMA SchemaInvInit ==
  ASSUME Init
  PROVE  SchemaInv
<1>1. \A t \in Thread : call[t].name = "none"
  BY DEF Init, NoCall
<1>2. \A a \in Attribute : schemas[a] = FirstSchema
  BY DEF Init
<1> QED BY <1>1, <1>2 DEF SchemaInv, ChangeGoesInOrder, SchemasAgree, SeenIsPresent, Running, Attribute

LEMMA SchemaInvStep ==
  ASSUME HelperAssumption, HelperInv, SchemaInv, [Next]_vars
  PROVE  SchemaInv'
<1>1. TypeOK /\ SetSchemaGoesOn
  BY DEF HelperInv
<1>2. ASSUME NEW t \in Thread, NEW s \in Schema, SetSchema(t, s)  PROVE SchemaInv'
  BY <1>2, ChangeStarts
<1>3. ASSUME NEW t \in Thread, Assign(t)  PROVE SchemaInv'
  BY <1>3, ChangeGoesOn
<1>4. ASSUME NEW t \in Thread, NEW annotate \in BOOLEAN, Parse(t, annotate)  PROVE SchemaInv'
  <2> DEFINE c == [name |-> "parse", seen |-> {},
                   todo |-> IF annotate THEN ParseOrder ELSE RemoveAt(ParseOrder, 2)]
  <2>1. c \in Call /\ c.name = "parse" /\ c.seen = {}
    BY OrdersType DEF ParseCall, Call
  <2>2. StartCall(t, c) /\ UNCHANGED <<schemas, raced>>
    BY <1>4 DEF Parse
  <2> HIDE DEF c
  <2> QED BY <1>1, <2>1, <2>2, StartStep
<1>5. ASSUME NEW t \in Thread, ParseStep(t)  PROVE SchemaInv'
  BY <1>5, ParseReadsStep
<1>6. ASSUME NEW t \in Thread, ParseRaises(t)  PROVE SchemaInv'
  BY <1>1, <1>6, EndStep DEF ParseRaises, Running
<1>7. ASSUME NEW t \in Thread, NEW r \in Resolver, NEW m \in Mapping \cup {None},
             ComputeSolutions(t, r, m)
      PROVE  SchemaInv'
  <2> DEFINE c == [name |-> "visit", resolver |-> r, mapping |-> m,
                   pc |-> "waiting", reads |-> 0, seen |-> {}]
  <2>1. c \in Call /\ c.name = "visit" /\ c.seen = {}
    BY DEF VisitCall, Call, HelperAssumption
  <2>2. StartCall(t, c) /\ UNCHANGED <<schemas, raced>>
    BY <1>7 DEF ComputeSolutions
  <2> HIDE DEF c
  <2> QED BY <1>1, <2>1, <2>2, StartStep
<1>8. ASSUME NEW t \in Thread, NEW r \in Resolver, Acquire(t, r) \/ Visit(t, r)  PROVE SchemaInv'
  BY <1>8, TakesLockStep
<1>9. ASSUME NEW t \in Thread, NEW r \in Resolver, ReadSchema(t, r)  PROVE SchemaInv'
  BY <1>9, ReadsStep
<1>10. ASSUME NEW t \in Thread, NEW r \in Resolver, Return(t, r) \/ Raise(t, r)  PROVE SchemaInv'
  BY <1>1, <1>10, EndStep DEF Return, Raise, Visiting
<1>11. CASE UNCHANGED vars
  BY <1>11 DEF vars, SchemaInv, ChangeGoesInOrder, SchemasAgree, SeenIsPresent, Running, Readable
<1> QED BY <1>2, <1>3, <1>4, <1>5, <1>6, <1>7, <1>8, <1>9, <1>10, <1>11 DEF Next, Proceed

\* While set_schema calls are one at a time, the one that runs is in the middle of its
\* list, and the calls that none overlaps see what is there; the other resolver
\* is never given another schema.
THEOREM ChangesGoInOrder == Spec => []SchemaInv
<1>1. HelperAssumption
  BY HelperAssumption
<1>2. Init => SchemaInv
  BY SchemaInvInit
<1>3. HelperInv /\ SchemaInv /\ [Next]_vars => SchemaInv'
  BY <1>1, SchemaInvStep
<1> QED BY <1>2, <1>3, LockGoesWithResolver, PTL DEF Spec

\* After set_schema calls that did not overlap, whatever their number, all that
\* set_schema assigns comes from one schema.
THEOREM SchemasSettleAlways == Spec => []SchemasSettle
<1>1. SchemaInv => SchemasSettle
  <2> SUFFICES ASSUME SchemaInv, ~raced, Running("set_schema") = {}
               PROVE  Cardinality({schemas[a] : a \in SetAttribute}) = 1
    BY DEF SchemasSettle
  <2>1. <<"checker", "schema">> \in SetAttribute
    BY DEF SetAttribute, ParseAttribute
  <2>2. {schemas[a] : a \in SetAttribute} = {schemas[<<"checker", "schema">>]}
    BY <2>1 DEF SchemaInv, SchemasAgree
  <2> QED BY <2>2, FS_Singleton
<1> QED BY <1>1, ChangesGoInOrder, PTL

\* A call that no set_schema overlaps sees one schema only.
THEOREM CallsSeeOneSchemaAlways == Spec => []CallsSeeOneSchema
<1>1. HelperInv /\ SchemaInv => CallsSeeOneSchema
  <2> SUFFICES ASSUME HelperInv, SchemaInv, ~raced, NEW t \in Thread,
                      call[t].name \in {"parse", "visit"}, t \notin overlapped
               PROVE  Cardinality(call[t].seen) <= 1
    BY DEF CallsSeeOneSchema, Running
  <2>1. /\ Running("set_schema") = {}
        /\ call[t].seen \subseteq {schemas[a] : a \in Readable(call[t])}
    BY DEF SchemaInv, SeenIsPresent, Running
  <2>2. \A a, b \in SetAttribute : schemas[a] = schemas[b]
    BY <2>1 DEF SchemaInv, SchemasAgree
  <2>3. \A a, b \in Fields("itr_analyser") : schemas[a] = schemas[b]
    BY DEF SchemaInv
  <2>4. Readable(call[t]) \subseteq SetAttribute \/ Readable(call[t]) = Fields("itr_analyser")
    <3>1. call[t].name = "visit" => call[t].resolver \in Resolver
      BY CallKinds DEF HelperInv, TypeOK, VisitCall
    <3> QED BY <3>1 DEF Readable, SetAttribute, Resolver
  <2>5. \A a, b \in Readable(call[t]) : schemas[a] = schemas[b]
    BY <2>2, <2>3, <2>4
  <2>6. CASE call[t].seen = {}
    BY <2>6, FS_EmptySet
  <2>7. CASE call[t].seen # {}
    <3>1. PICK s : s \in call[t].seen
      BY <2>7
    <3>2. call[t].seen = {s}
      BY <2>1, <2>5, <3>1
    <3>3. Cardinality(call[t].seen) = 1
      BY <3>2, FS_Singleton
    <3> QED BY <3>3
  <2> QED BY <2>6, <2>7
<1> QED BY <1>1, LockGoesWithResolver, ChangesGoInOrder, PTL
=============================================================================
