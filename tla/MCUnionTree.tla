---------------------------- MODULE MCUnionTree ----------------------------
(***************************************************************************)
(* A SELECT, a union of two of them, and a union on a subquery of two, on  *)
(* two types; room for two wrappings or one and an appended SELECT.        *)
(***************************************************************************)
EXTENDS UnionTree

MCSelect == 1..5
MCUnionNode == 1..3
MCEtype == {"a", "b"}
MCLimits == {None, 0, 1, 3}
MCOffsets == {0, 1}

\* The SELECTs of the unions, the subqueries of the SELECTs, the types of the SELECTs.
Parsed(children, query, types) ==
  [children |-> [u \in UnionNode |-> IF u \in DOMAIN children THEN children[u] ELSE <<>>],
   parent |-> [s \in Select |-> LET over == {u \in DOMAIN children : s \in Range(children[u])}
                                IN  IF over = {} THEN None ELSE CHOOSE u \in over : TRUE],
   query |-> [s \in Select |-> IF s \in DOMAIN query THEN query[s] ELSE None],
   limit |-> [s \in Select |-> None], offset |-> [s \in Select |-> 0],
   types |-> [s \in Select |-> IF s \in DOMAIN types THEN types[s] ELSE {"a"}],
   selects |-> Len(types), unions |-> Len(children)]

MCParsedTrees ==
  {Parsed(<<<<1>>>>, <<>>, <<{"a", "b"}>>),
   Parsed(<<<<1, 2>>>>, <<>>, <<{"a", "b"}, {"b"}>>),
   Parsed(<<<<1>>, <<2, 3>>>>, <<2>>, <<{"a", "b"}, {"a"}, {"a", "b"}>>)}
=============================================================================
