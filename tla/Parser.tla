------------------------------- MODULE Parser -------------------------------
(***************************************************************************)
(* The parser of RQL (rql/parser.py) reading a text word by word.          *)
(*                                                                         *)
(* A function of the parser is a sequence of instructions: scan a token,   *)
(* peek at the next one and branch, loop while it is some separator, call  *)
(* another function, do something with the statement.  The state is what is *)
(* left to do, the values of the local variables (a stack), the statements *)
(* being built (a stack) and the word that was peeked at and not scanned.  *)
(*                                                                         *)
(* The scanner (yapps) knows the types of tokens that the parser allows    *)
(* where it is, and takes the longest match among their patterns, the      *)
(* first of the longest ones: a keyword where only a VARIABLE may come is  *)
(* a variable, and "NOT (" where a FUNCTION may come calls the function    *)
(* NOT, since the pattern of FUNCTION takes the space too.  Words are      *)
(* separated by spaces, except that a "(" may touch the word before it;    *)
(* comments and the case of keywords and of functions are left out.  A     *)
(* word of which only a beginning is allowed (Any where only a VARIABLE    *)
(* may come: the scanner cuts it after A) is refused.                      *)
(***************************************************************************)
EXTENDS Syntax

CONSTANTS
  Name,       \* words that match VARIABLE only
  Rtype,      \* words that match R_TYPE
  Etype,      \* words that match E_TYPE
  Samples     \* texts to read: a prefix, the words that may follow it, the longest
              \* text, the length below which wrong words are tried, and the words of
              \* letters that a "(" may follow

VARIABLES
  sample,     \* the sample that the text belongs to
  text,       \* the words read so far
  parser      \* the state of the parser

vars == <<sample, text, parser>>

-----------------------------------------------------------------------------
\* Tokens.

Keyword ==
  {"DELETE", "SET", "INSERT", "UNION", "DISTINCT", "WITH", "WHERE", "BEING", "OR", "AND", "NOT",
   "GROUPBY", "HAVING", "ORDERBY", "LIMIT", "OFFSET", "TRUE", "FALSE", "NULL", "EXISTS"}

\* The token types whose patterns come before FUNCTION and match the word, in their order.
BeforeFunction(word) ==
  CASE word \in Keyword -> <<word>>
    [] word = "ASC" -> <<"SORT_ASC">>
    [] word = "DESC" -> <<"SORT_DESC">>
    [] word = "TODAY" -> <<"DATE">>
    [] word = "NOW" -> <<"DATETIME">>
    [] word = "IN" -> <<"'IN'">>
    [] word \in {"=", ">"} -> <<"CMP_OP">>
    [] word = "+" -> <<"ADD_OP">>
    [] word = "-" -> <<"ADD_OP", "UNARY_OP">>
    [] word = "~" -> <<"UNARY_OP">>
    [] word = "*" -> <<"MUL_OP">>
    [] word = "^" -> <<"POW_OP">>
    [] word \in Paren -> <<"(">>
    [] word \in {")", ",", ":", ";"} -> <<word>>
    [] OTHER -> <<>>

\* Those whose patterns come after it.
AfterFunction(word) ==
  CASE word \in Rtype -> <<"R_TYPE">>
    [] word \in Etype -> <<"E_TYPE">>
    [] word \in Keyword \cup Name \cup {"ASC", "DESC", "TODAY", "NOW", "IN"} -> <<"VARIABLE">>
    [] word = "?" -> <<"QMARK">>
    [] word \in {"0", "1"} -> <<"INT">>
    [] OTHER -> <<>>

InLetters(word) == AfterFunction(word) # <<>> /\ word \notin {"?", "0", "1"}

\* The token types of a word, the one the scanner prefers first.  FUNCTION is "letters,
\* spaces, then a parenthesis ahead": it takes a space as well, and so more than any other
\* pattern; without a space the match is as long as that of the others.
Types(word, next) ==
  LET function == IF InLetters(word) THEN <<"FUNCTION">> ELSE <<>>
  IN  CASE next = " (" -> function \o BeforeFunction(word) \o AfterFunction(word)
        [] next = "("  -> BeforeFunction(word) \o function \o AfterFunction(word)
        [] OTHER       -> BeforeFunction(word) \o AfterFunction(word)

ConstantType == {"NULL", "DATE", "DATETIME", "TRUE", "FALSE", "FLOAT", "INT", "STRING", "SUBSTITUTE"}

\* Sets of tokens that the generated code writes out in full.
ExprBase    == ConstantType \cup {"(", "VARIABLE", "E_TYPE", "FUNCTION"}
ExprAdd     == ExprBase \cup {"UNARY_OP"}
FromWith    == {"WITH", ";", ")"}
FromHaving  == {"HAVING"} \cup FromWith
FromWhere   == {"WHERE"} \cup FromHaving
FromOffset  == {"OFFSET"} \cup FromWhere
FromLimit   == {"LIMIT"} \cup FromOffset
FromOrderby == {"ORDERBY"} \cup FromLimit
FromGroupby == {"GROUPBY"} \cup FromOrderby
AfterExpr   == FromGroupby \cup {",", "QMARK", "SORT_DESC", "SORT_ASC", "CMP_OP", "R_TYPE", "'IN'", "AND", "OR"}

-----------------------------------------------------------------------------
\* Instructions.

Scan(type) == [do |-> "scan", what |-> type]                 \* self._scan(type)
Read(type) == [do |-> "read", what |-> type]                 \* X = self._scan(type)
Call(function) == [do |-> "call", what |-> function]
Act(action) == [do |-> "act", what |-> action]
Value(what) == [do |-> "value", what |-> what]               \* a value that is not read
\* _token = self._peek(types): one branch per token type in cases, the else branch
If(types, cases, else) == [do |-> "if", types |-> types, cases |-> cases, else |-> else]
\* while self._peek(types) == type: body
While(types, type, body) == [do |-> "while", types |-> types, what |-> type, body |-> body]

\* item ("," item)*, each item appended to the list under it
Listed(item, types, append) ==
  <<Call(item), append, While(types, ",", <<Scan(","), Call(item), append>>)>>
\* item (sep item)*, joined from the left by action
Chain(item, types, sep, action) ==
  <<Call(item), While(types, sep, <<Scan(sep), Call(item), Act(action)>>)>>
\* an optional clause
Optional(types, type, body) == <<If(types, type :> <<Scan(type)>> \o body, <<>>)>>

Push == Act("append")

-----------------------------------------------------------------------------
\* The functions of the parser.

goal ==
  <<If({"DELETE", "INSERT", "SET", "(", "DISTINCT", "E_TYPE"},
       [DELETE |-> <<Scan("DELETE"), Act("Delete"), Call("_delete"), Scan(";"), Act("return")>>,
        INSERT |-> <<Scan("INSERT"), Act("Insert"), Call("_insert"), Scan(";"), Act("return")>>,
        SET    |-> <<Scan("SET"), Act("Set"), Call("update"), Scan(";"), Act("return")>>],
       <<Act("Union"), Call("union"), Scan(";")>>)>>

_delete ==
  <<If({"E_TYPE", "VARIABLE"},
       "VARIABLE" :> <<Call("decl_rels"), Call("where"), Call("having")>>,
       <<Call("decl_vars"), Call("where"), Call("having")>>)>>

_insert == <<Call("decl_vars"), Call("insert_rels")>>

insert_rels == Optional({":", ";"}, ":", <<Call("decl_rels"), Call("where"), Call("having")>>)

update == <<Call("decl_rels"), Call("where"), Call("having")>>

union ==
  LET part == <<Scan("("), Act("Select"), Call("select"), Scan(")"), Act("append_select")>>
  IN  <<If({"(", "DISTINCT", "E_TYPE"},
           "(" :> part \o <<While({"UNION", ";", ")"}, "UNION", <<Scan("UNION")>> \o part)>>,
           <<Act("Select"), Call("select"), Act("append_select")>>)>>

select ==
  <<If({"DISTINCT", "E_TYPE"},
       "DISTINCT" :> <<Scan("DISTINCT"), Call("select_"), Act("distinct")>>,
       <<Call("select_")>>)>>

select_ ==
  <<Read("E_TYPE"), Call("selection"), Call("groupby"), Call("orderby"), Call("limit"),
    Call("offset"), Call("where"), Call("having"), Call("with_"), Act("set_statement_type")>>

selection == Listed("expr_add", FromGroupby \cup {","}, Act("append_selected"))

groupby ==
  Optional(FromGroupby, "GROUPBY",
           <<Value("nodes")>> \o Listed("expr_add", FromOrderby \cup {","}, Push) \o <<Act("set_groupby")>>)

having == Optional(FromHaving, "HAVING", <<Call("logical_expr"), Act("set_having")>>)

orderby ==
  Optional(FromOrderby, "ORDERBY",
           <<Value("nodes")>> \o Listed("sort_term", FromLimit \cup {","}, Push) \o <<Act("set_orderby")>>)

with_ ==
  Optional(FromWith, "WITH",
           <<Value("nodes")>> \o Listed("subquery", {",", ")", ";"}, Push) \o <<Act("set_with")>>)

subquery ==
  <<Call("variables"), Scan("BEING"), Scan("("), Act("Union"), Call("union"), Scan(")"), Act("SubQuery")>>

sort_term == <<Call("expr_add"), Call("sort_meth"), Act("SortTerm")>>

sort_meth ==
  <<If(FromLimit \cup {"SORT_DESC", "SORT_ASC", ","},
       [SORT_DESC |-> <<Scan("SORT_DESC"), Value("DESC")>>, SORT_ASC |-> <<Scan("SORT_ASC"), Value("ASC")>>],
       <<Value("ASC")>>)>>

limit == Optional(FromLimit, "LIMIT", <<Read("INT"), Act("set_limit")>>)

offset == Optional(FromOffset, "OFFSET", <<Read("INT"), Act("set_offset")>>)

where == Optional(FromWhere, "WHERE", <<Call("restriction"), Act("set_where")>>)

restriction == Chain("rels_or", FromHaving \cup {","}, ",", "And")

rels_or == Chain("rels_and", FromHaving \cup {",", "OR"}, "OR", "Or")

rels_and == Chain("rels_not", FromHaving \cup {",", "OR", "AND"}, "AND", "And")

\* Mutant of rels_not: NOT takes a conjunction.
rels_notWide ==
  <<If({"NOT", "(", "EXISTS", "VARIABLE"}, "NOT" :> <<Scan("NOT"), Call("rels_and"), Act("Not")>>, <<Call("rel")>>)>>

rels_not ==
  <<If({"NOT", "(", "EXISTS", "VARIABLE"}, "NOT" :> <<Scan("NOT"), Call("rel"), Act("Not")>>, <<Call("rel")>>)>>

rel ==
  <<If({"(", "EXISTS", "VARIABLE"},
       "(" :> <<Scan("("), Call("restriction"), Scan(")")>>, <<Call("rel_base")>>)>>

rel_base ==
  <<If({"EXISTS", "VARIABLE"},
       "VARIABLE" :> <<Call("var"), Call("opt_left"), Call("rtype"), Act("lhs"),
                       Call("expr"), Call("opt_right"), Act("rhs")>>,
       <<Scan("EXISTS"), Scan("("), Call("restriction"), Scan(")"), Act("Exists")>>)>>

rtype == <<Read("R_TYPE"), Act("Relation")>>

opt_left ==
  <<If({"QMARK", "R_TYPE", "CMP_OP", "'IN'"}, "QMARK" :> <<Scan("QMARK"), Value("left")>>, <<Value("none")>>)>>

opt_right ==
  <<If(FromHaving \cup {"QMARK", "AND", "OR", ","}, "QMARK" :> <<Scan("QMARK"), Value("right")>>,
       <<Value("none")>>)>>

logical_expr == Chain("exprs_or", FromWith \cup {","}, ",", "And")

exprs_or == Chain("exprs_and", FromWith \cup {",", "OR"}, "OR", "Or")

exprs_and == Chain("exprs_not", FromWith \cup {",", "OR", "AND"}, "AND", "And")

exprs_not ==
  <<If(ExprAdd \cup {"NOT"}, "NOT" :> <<Scan("NOT"), Call("balanced_expr"), Act("Not")>>,
       <<Call("balanced_expr")>>)>>

balanced_expr ==
  <<If(ExprAdd, "(" :> <<Scan("("), Call("logical_expr"), Scan(")")>>,
       <<Call("expr_add"), Call("opt_left"), Call("expr_op"), Call("opt_right"), Act("compare")>>)>>

expr_op ==
  <<If({"CMP_OP", "'IN'"}, "CMP_OP" :> <<Read("CMP_OP"), Call("expr_add"), Act("Comparison")>>,
       <<Call("in_expr"), Act("Equals")>>)>>

variables == <<Value("nodes")>> \o Listed("var", {",", "BEING"}, Push)

decl_vars ==
  <<Read("E_TYPE"), Call("var"),
    While(AfterExpr \cup {":", "BEING", "POW_OP", "MUL_OP", "ADD_OP"}, ",",
          <<Act("add_main_variable"), Scan(","), Read("E_TYPE"), Call("var")>>),
    Act("add_main_variable")>>

decl_rels == Listed("simple_rel", FromWhere \cup {","}, Act("add_main_relation"))

simple_rel == <<Call("var"), Read("R_TYPE"), Call("expr_add"), Act("simple_rel")>>

expr ==
  <<If(ExprAdd \cup {"CMP_OP"}, "CMP_OP" :> <<Read("CMP_OP"), Call("expr_add"), Act("Comparison")>>,
       <<Call("expr_add"), Act("Equals")>>)>>

expr_add ==
  LET sums == While(AfterExpr \cup {"ADD_OP"}, "ADD_OP",
                    <<Read("ADD_OP"), Call("expr_mul"), Act("MathExpression")>>)
  IN  <<If(ExprAdd, "UNARY_OP" :> <<Read("UNARY_OP"), Call("expr_mul"), Act("UnaryExpression"), sums>>,
           <<Call("expr_mul"), sums>>)>>

expr_mul ==
  <<Call("expr_pow"),
    While(AfterExpr \cup {"ADD_OP", "MUL_OP"}, "MUL_OP",
          <<Read("MUL_OP"), Call("expr_pow"), Act("MathExpression")>>)>>

\* The operator is scanned and not kept; MUL_OP names nothing here.
expr_pow ==
  <<Call("expr_base"),
    While(AfterExpr \cup {"ADD_OP", "MUL_OP", "POW_OP"}, "POW_OP",
          <<Scan("POW_OP"), Call("expr_base"), Act("MUL_OP")>>)>>

expr_base ==
  <<If(ExprBase,
       [VARIABLE |-> <<Call("var")>>, E_TYPE |-> <<Call("etype")>>, FUNCTION |-> <<Call("func")>>]
         @@ ("(" :> <<Scan("("), Call("expr_add"), Scan(")")>>),
       <<Call("const")>>)>>

Arguments == <<If(ExprAdd \cup {")"}, ")" :> <<>>, Listed("expr_add", AfterExpr, Push))>>

func == <<Read("FUNCTION"), Scan("("), Act("Function")>> \o Arguments \o <<Scan(")")>>

in_expr == <<Read("'IN'"), Scan("("), Act("Function")>> \o Arguments \o <<Scan(")")>>

var == <<Read("VARIABLE"), Act("VariableRef")>>

etype == <<Read("E_TYPE"), Act("Etype")>>

const == <<If(ConstantType, [t \in ConstantType |-> <<Read(t), Act("Constant")>>], <<>>)>>

Function ==
  [goal |-> goal, _delete |-> _delete, _insert |-> _insert, insert_rels |-> insert_rels, update |-> update,
   union |-> union, select |-> select, select_ |-> select_, selection |-> selection, groupby |-> groupby,
   having |-> having, orderby |-> orderby, with_ |-> with_, subquery |-> subquery, sort_term |-> sort_term,
   sort_meth |-> sort_meth, limit |-> limit, offset |-> offset, where |-> where, restriction |-> restriction,
   rels_or |-> rels_or, rels_and |-> rels_and, rels_not |-> rels_not, rel |-> rel, rel_base |-> rel_base,
   rtype |-> rtype, opt_left |-> opt_left, opt_right |-> opt_right, logical_expr |-> logical_expr,
   exprs_or |-> exprs_or, exprs_and |-> exprs_and, exprs_not |-> exprs_not, balanced_expr |-> balanced_expr,
   expr_op |-> expr_op, variables |-> variables, decl_vars |-> decl_vars, decl_rels |-> decl_rels,
   simple_rel |-> simple_rel, expr |-> expr, expr_add |-> expr_add, expr_mul |-> expr_mul, expr_pow |-> expr_pow,
   expr_base |-> expr_base, func |-> func, in_expr |-> in_expr, var |-> var, etype |-> etype, const |-> const]

-----------------------------------------------------------------------------
\* The state of the parser, and what the functions do with the statement.

\* word: the word that was given and not scanned yet, next: the one after it, when it
\* is known; token: its type, once peeked at.
Start(function) ==
  [status |-> "reading", todo |-> <<Call(function)>>, values |-> <<>>, statements |-> <<>>,
   word |-> "", next |-> "", token |-> ""]

Raise(p, error) == [p EXCEPT !.status = error, !.todo = <<>>, !.word = "", !.next = "", !.token = ""]

\* The nth value from the top, the n values under the top replaced by one, the
\* statement that is being built.
Top(p, n) == p.values[Len(p.values) - n]
Replace(p, n, value) == [p EXCEPT !.values = Append(SubSeq(@, 1, Len(@) - n), value)]
Drop(p, n) == [p EXCEPT !.values = SubSeq(@, 1, Len(@) - n)]
Statement(p) == Last(p.statements)
Update(p, statement) == [p EXCEPT !.statements = Append(Front(@), statement)]
Open(p, type) == [p EXCEPT !.statements = Append(@, NewStatement(type))]

AppendSelected(p) ==
  IF Top(p, 0).class = "Etype" THEN Raise(p, "BadRQLQuery")
  ELSE Drop(Update(p, [Statement(p) EXCEPT !.selection = Append(@, Top(p, 0))]), 1)

\* Only 0 stands for the limits that are refused.
SetLimit(p) ==
  IF Top(p, 0).what = "0" THEN Raise(p, "BadRQLQuery")
  ELSE Drop(Update(p, [Statement(p) EXCEPT !.limit = Top(p, 0).what]), 1)

\* add_subquery for each subquery: the number of columns of its first SELECT only,
\* then its aliases one by one.
AddSubquery(p, node) ==
  LET fresh(q, i) == node.kids[i].what \notin Statement(q).aliases
      add(q, i) == IF q.status # "reading" THEN q
                   ELSE IF ~fresh(q, i) THEN Raise(q, "BadRQLQuery")
                   ELSE Update(q, GetAlias(Statement(q), node.kids[i].what))
  IN  IF p.status # "reading" THEN p
      ELSE IF Len(node.kids) # Len(node.query.kids[1].selection) THEN Raise(p, "BadRQLQuery")
      ELSE FoldLeft(add, Update(p, [Statement(p) EXCEPT !.with = Append(@, node)]),
                    [i \in DOMAIN node.kids |-> i])

SetWith(p) == FoldLeft(AddSubquery, Drop(p, 1), Top(p, 0).kids)

\* get_selected_variables goes through a term from its last child.
SelectedNames(s) == FlattenSeq([i \in DOMAIN s.selection |-> Reverse(NamesIn(s.selection[i]))])

SetStatementType(p) ==
  LET etype_ == Top(p, 0).what
      names == SelectedNames(Statement(p))
      restrict(s, name) == AddRestriction(AddReference(s, name), TypeRestriction(name, etype_))
  IN  IF etype_ = "Any" THEN Drop(p, 1)
      ELSE IF names = <<>> THEN Raise(p, "BadRQLQuery")
      ELSE Drop(Update(p, FoldLeft(restrict, Statement(p), names)), 1)

AddMainVariable(p) ==
  IF Statement(p).type = "insert" /\ Top(p, 1).what = "Any" THEN Raise(p, "BadRQLQuery")
  ELSE Drop(Update(p, [Statement(p) EXCEPT !.main_variables =
                         Append(@, Node("MainVariable", Top(p, 1).what, <<Top(p, 0)>>))]), 2)

\* An INSERT refuses a Constant as second child of a relation on a variable that it does
\* not insert; the second child is a Comparison, so that it refuses nothing.
AddMainRelation(p) ==
  IF Statement(p).type = "delete" /\ Top(p, 0).kids[2].kids[1].class # "VariableRef"
  THEN Raise(p, "AssertionError")
  ELSE Drop(Update(p, [Statement(p) EXCEPT !.main_relations = Append(@, Top(p, 0))]), 1)

SetClause(p, clause, nodes) == Drop(Update(p, [Statement(p) EXCEPT ![clause] = nodes]), 1)

\* Comparison.set_optional(left, right)
BothSides(left, right) ==
  IF left # "none" /\ right # "none" THEN "both" ELSE IF left # "none" THEN left ELSE right

Do(p, action) ==
  LET v(n) == Top(p, n) IN
  CASE action = "Union"  -> [p EXCEPT !.values = Append(@, Node("Union", "", <<>>))]
    [] action = "Select" -> Open(p, "select")
    [] action = "Delete" -> Open(p, "delete")
    [] action = "Insert" -> Open(p, "insert")
    [] action = "Set"    -> Open(p, "set")
    [] action = "append_select" ->
         [Replace(p, 1, [v(0) EXCEPT !.kids = Append(@, Statement(p))]) EXCEPT !.statements = Front(@)]
    [] action = "return" -> [p EXCEPT !.values = <<Statement(p)>>, !.statements = <<>>]
    [] action = "VariableRef" ->
         Replace(Update(p, AddReference(GetVariable(Statement(p), v(0).what), v(0).what)), 1,
                 [v(0) EXCEPT !.class = "VariableRef"])
    [] action \in {"Constant", "Etype", "Function", "Relation"} -> Replace(p, 1, [v(0) EXCEPT !.class = action])
    [] action \in {"And", "Or"} -> Replace(p, 2, Node(action, "", <<v(1), v(0)>>))
    [] action \in {"Not", "Exists"} -> Replace(p, 1, Node(action, "", <<v(0)>>))
    [] action = "MathExpression" -> Replace(p, 3, Node(action, v(1).what, <<v(2), v(0)>>))
    [] action = "UnaryExpression" -> Replace(p, 2, Node(action, v(1).what, <<v(0)>>))
    [] action = "MUL_OP" -> Raise(p, "NameError")
    [] action = "append" -> Replace(p, 2, [v(1) EXCEPT !.kids = Append(@, v(0))])
    [] action = "lhs" -> Replace(p, 3, SetOptional([v(0) EXCEPT !.kids = <<v(2)>>], v(1).what))
    [] action = "rhs" -> Replace(p, 3, SetOptional([v(2) EXCEPT !.kids = Append(@, v(1))], v(0).what))
    [] action = "Comparison" -> Replace(p, 2, Node(action, v(1).what, <<v(0)>>))
    [] action = "Equals" -> Replace(p, 1, Node("Comparison", "=", <<v(0)>>))
    [] action = "compare" ->
         Replace(p, 4, [v(1) EXCEPT !.kids = <<v(3)>> \o @, !.optional = BothSides(v(2).what, v(0).what)])
    [] action = "simple_rel" ->
         Replace(p, 3, Node("Relation", v(1).what, <<v(2), Node("Comparison", "=", <<v(0)>>)>>))
    [] action = "SortTerm" -> Replace(p, 2, Node(action, v(0).what, <<v(1)>>))
    [] action = "SubQuery" -> Replace(p, 2, [v(1) EXCEPT !.class = action] @@ [query |-> v(0)])
    [] action = "distinct" -> Update(p, [Statement(p) EXCEPT !.distinct = TRUE])
    [] action = "append_selected" -> AppendSelected(p)
    [] action \in {"set_groupby", "set_orderby"} ->
         SetClause(p, IF action = "set_groupby" THEN "groupby" ELSE "orderby", v(0).kids)
    [] action \in {"set_where", "set_having"} ->
         SetClause(p, IF action = "set_where" THEN "where" ELSE "having", <<v(0)>>)
    [] action = "set_limit"  -> SetLimit(p)
    [] action = "set_offset" -> SetClause(p, "offset", v(0).what)
    [] action = "set_with"   -> SetWith(p)
    [] action = "set_statement_type" -> SetStatementType(p)
    [] action = "add_main_variable"  -> AddMainVariable(p)
    [] action = "add_main_relation"  -> AddMainRelation(p)

-----------------------------------------------------------------------------
\* Running the parser on a word.

\* The type of the word among those allowed, which a peek fixes until the word is
\* scanned; "" when it is of none of them.
Peek(p, types) ==
  LET allowed == SelectSeq(Types(p.word, p.next), LAMBDA t : t \in types)
  IN  IF p.token # "" THEN p.token ELSE IF allowed = <<>> THEN "" ELSE Head(allowed)

NeedsWord(instruction) == instruction.do \in {"scan", "read", "if", "while"}

Step(p) ==
  LET next == Head(p.todo)
      rest == [p EXCEPT !.todo = Tail(@)]
      token == Peek(p, IF next.do \in {"if", "while"} THEN next.types ELSE {next.what})
      peeked(then) == IF token = "" THEN Raise(p, "RQLSyntaxError")
                      ELSE [rest EXCEPT !.token = token, !.todo = then \o @]
  IN  CASE next.do = "call" -> [rest EXCEPT !.todo = Function[next.what] \o @]
        [] next.do = "act" -> Do(rest, next.what)
        [] next.do = "value" -> [rest EXCEPT !.values = Append(@, Node("value", next.what, <<>>))]
        [] next.do = "if" ->
             peeked(IF token \in DOMAIN next.cases THEN next.cases[token] ELSE next.else)
        [] next.do = "while" ->
             peeked(IF token = next.what THEN Append(next.body, next) ELSE <<>>)
        [] next.do \in {"scan", "read"} ->
             IF token # next.what THEN Raise(p, "RQLSyntaxError")
             ELSE [rest EXCEPT !.word = "", !.next = "", !.token = "",
                               !.values = IF next.do = "read" THEN Append(@, Node("value", p.word, <<>>))
                                          ELSE @]

RECURSIVE Run(_)
\* Until another word is needed, the goal is reached or an exception is raised.
Run(p) ==
  IF p.status # "reading" THEN p
  ELSE IF p.todo = <<>> THEN [p EXCEPT !.status = "parsed"]
  ELSE IF NeedsWord(Head(p.todo)) /\ p.word = "" THEN p
  ELSE Run(Step(p))

Feed(p, word, next) ==
  IF p.status = "reading" THEN Run([p EXCEPT !.word = word, !.next = next]) ELSE p

FeedAll(p, words) ==
  FoldLeft(LAMBDA q, i : Feed(q, words[i], IF i < Len(words) THEN words[i + 1] ELSE ""),
           p, [i \in DOMAIN words |-> i])

\* parse(): the text, which ends with a semi-colon, read by the rule goal.
Parse(words) == FeedAll(Run(Start("goal")), words)

Tree(p) == p.values[1]

-----------------------------------------------------------------------------

Init ==
  /\ sample \in Samples
  /\ text = sample.prefix
  /\ parser = Parse(sample.prefix)

\* What may come next: a word, with the "(" that follows it if it is one of letters.
Lexemes ==
  LET touched == Len(text) > Len(sample.prefix) /\ InLetters(Last(text))
  IN  {<<word>> : word \in IF touched THEN sample.words \ {"("} ELSE sample.words}
        \cup {<<word, paren>> : word \in sample.opened, paren \in Paren}

\* The words are ones that may come here, or the parser raises.
ReadWords(words) ==
  /\ parser.status = "reading"
  /\ Len(text) + Len(words) <= sample.longest
  /\ text' = text \o [i \in DOMAIN words |-> IF words[i] \in Paren THEN "(" ELSE words[i]]
  /\ parser' = FeedAll(parser, words)
  /\ parser'.status \in {"reading", "parsed"} \/ Len(text) < sample.shortest
  /\ UNCHANGED sample

Next == \E words \in Lexemes : ReadWords(words)

Spec == Init /\ [][Next]_vars

-----------------------------------------------------------------------------
\* What the parser must do.

Status == {"reading", "parsed", "RQLSyntaxError", "BadRQLQuery", "AssertionError", "NameError"}

\* Between two words there is something left to do that needs a word; at the end of the
\* text nothing is left, on either stack, but the tree.
TypeOK ==
  /\ sample \in Samples
  /\ Range(text) \subseteq Range(sample.prefix) \cup sample.words
  /\ parser.status \in Status
  /\ parser.status = "reading" => parser.todo # <<>> /\ NeedsWord(Head(parser.todo)) /\ parser.token = ""
  /\ parser.status = "parsed" => Len(parser.values) = 1 /\ parser.statements = <<>>

\* A tree with its conjunctions flattened: "," and AND are both And, and as_string writes
\* a conjunction in a conjunction without parentheses.
RECURSIVE Flat(_)
Flat(x) ==
  LET all(nodes) == [i \in DOMAIN nodes |-> Flat(nodes[i])]
      parts(n) == IF n.class = "And" THEN n.kids ELSE <<n>>
  IN  IF IsStatement(x)
      THEN [x EXCEPT !.where = all(@), !.having = all(@), !.with = all(@)]
      ELSE CASE x.class = "And" -> [x EXCEPT !.kids = parts(Flat(@[1])) \o parts(Flat(@[2]))]
             [] x.class = "SubQuery" -> [x EXCEPT !.query = Flat(@)]
             [] OTHER -> [x EXCEPT !.kids = all(@)]

\* Where only a VARIABLE may come, a keyword is the name of one; where a FUNCTION may come
\* and a " (" follows, the name of a function.
KeywordNames(root) ==
  \E n \in GetNodes(root, "VariableRef") \cup GetNodes(root, "Function") : n.what \in Keyword

Parsed == parser.status = "parsed"
ReadBack == Parse(Append(Text(Tree(parser)), ";"))

\* as_string writes no parentheses around a unary expression, wherever it is; it writes
\* them around an operation that begins a comparison of a HAVING, which then is read as
\* the beginning of a parenthesised condition.  What NOT negates in a HAVING it writes after
\* "NOT (", which is read there as a call of a function NOT.
Writable(root) ==
  /\ ~KeywordNames(root)
  /\ GetNodes(root, "UnaryExpression") = {}
  /\ \A n \in GetNodes(root, "Comparison") : Len(n.kids) = 2 => n.kids[1].class # "MathExpression"
  /\ \A n \in GetNodes(root, "Not") : GetNodes(n, "Relation") \cup GetNodes(n, "Exists") # {}

\* The text that as_string() makes of a parsed tree is parsed to the same tree, its
\* statements, aliases and references included, up to the grouping of conjunctions.
RoundTrip ==
  (Parsed /\ Writable(Tree(parser))) =>
    ReadBack.status = "parsed" /\ Flat(Tree(ReadBack)) = Flat(Tree(parser))

-----------------------------------------------------------------------------
\* The priorities of the language, on the words alone: doc/specifications_en.txt lists
\* them as "* /, + -, and, or, ',' (comma)".

Priority == ("," :> 1) @@ ("OR" :> 2) @@ ("AND" :> 3) @@ ("r" :> 5) @@ (">" :> 6)
              @@ ("+" :> 7) @@ ("-" :> 7) @@ ("*" :> 9)
PrefixPriority == ("NOT" :> 4) @@ (">" :> 6) @@ ("-" :> 8)

Shape(word, shapes) ==
  [of |-> IF word \in {",", "AND"} THEN "And" ELSE IF word = "OR" THEN "Or" ELSE word, shapes |-> shapes]

\* The text is cut at its last weakest operator that is out of any parentheses.
RECURSIVE Grouped(_)
Grouped(words) ==
  LET depth(i) == Quantify(1..i, LAMBDA j : words[j] = "(") - Quantify(1..i, LAMBDA j : words[j] = ")")
      operators == {i \in 2..Len(words) :
                     words[i] \in DOMAIN Priority /\ words[i - 1] \notin DOMAIN Priority /\ depth(i) = 0}
      cut == CHOOSE i \in operators : \A j \in operators :
               \/ Priority[words[j]] > Priority[words[i]]
               \/ Priority[words[j]] = Priority[words[i]] /\ j <= i
      weaker(w) == w \in DOMAIN PrefixPriority => Priority[words[cut]] < PrefixPriority[w]
      inside(first) == SubSeq(words, first, Len(words) - 1)
  IN  CASE operators # {} /\ weaker(words[1]) ->
             Shape(words[cut], <<Grouped(SubSeq(words, 1, cut - 1)), Grouped(SubSeq(words, cut + 1, Len(words)))>>)
        [] Len(words) = 1 -> Shape(words[1], <<>>)
        [] OTHER ->
             IF words[1] \in DOMAIN PrefixPriority THEN Shape(words[1], <<Grouped(Tail(words))>>)
             ELSE IF words[1] = "(" THEN Grouped(inside(2))
             ELSE Shape(words[1], IF inside(3) = <<>> THEN <<>> ELSE <<Grouped(inside(3))>>)

\* How a tree groups its words; the arguments of a function are a list.
AsList(shapes) ==
  IF shapes = <<>> THEN <<>>
  ELSE <<FoldLeft(LAMBDA list, s : Shape(",", <<list, s>>), Head(shapes), Tail(shapes))>>

RECURSIVE ShapeOf(_)
ShapeOf(n) ==
  LET shapes == [i \in DOMAIN n.kids |-> ShapeOf(n.kids[i])]
      word == CASE n.class \in {"And", "Or"} -> n.class
                [] n.class = "Not" -> "NOT"
                [] n.class = "Exists" -> "EXISTS"
                [] OTHER -> n.what
  IN  IF word = "=" THEN shapes[1]
      ELSE Shape(word, IF n.class = "Function" THEN AsList(shapes) ELSE shapes)

\* What the samples are about: the clause their prefix ends with.
Condition(s) == IF sample.prefix = <<"Any">> THEN s.selection ELSE s.where \o s.having

\* The parser groups the words of a condition, of a selected term and of its arguments by
\* the priorities of their operators, those of one priority from the left.
FollowsPriorities ==
  (Parsed /\ sample.prefix \in {<<"Any">>, <<"Any", "X", "WHERE">>, <<"Any", "X", "HAVING">>}
     /\ Range(text) \cap {"?", "IN"} = {} /\ ~KeywordNames(Tree(parser))) =>
    AsList([i \in DOMAIN Condition(Tree(parser).kids[1]) |-> ShapeOf(Condition(Tree(parser).kids[1])[i])])
      = <<Grouped(SubSeq(text, Len(sample.prefix) + 1, Len(text) - 1))>>

\* A statement knows the names that its own clauses refer to and no other, each with the
\* number of its references, and as an alias exactly those that a subquery of it defines,
\* wherever the name was read first.
NamesAreKept ==
  /\ TypeOK
  /\ Parsed => \A s \in {x \in Subtree(Tree(parser)) : IsStatement(x)} :
    LET names == NamesOf(Children(s))
    IN  /\ s.aliases = Range(NamesOf(s.with))
        /\ s.defined_vars = Range(names) \ s.aliases
        /\ s.references = [name \in Range(names) |-> Quantify(DOMAIN names, LAMBDA i : names[i] = name)]

\* A copy is the tree: its clauses, and the variables, aliases and references that
\* the copy registers again, subquery by subquery.
CopyIsFaithful ==
  (Parsed /\ ~CopyRaises(Tree(parser))) => Copy(Tree(parser)) = Tree(parser)
=============================================================================
