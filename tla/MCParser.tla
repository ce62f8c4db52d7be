------------------------------ MODULE MCParser ------------------------------
EXTENDS Parser

From(prefix, words, opened, longest) ==
  [prefix |-> prefix, words |-> words \cup {";"}, opened |-> opened, longest |-> longest,
   shortest |-> Len(prefix) + 3]

S1 == From(<<"Any", "X", "WHERE">>, {"X", "r", "(", ")", ",", "OR"}, {"OR"}, 16)
S2 == From(<<"Any", "X", "WHERE">>, {"X", "r", "NOT", "EXISTS", "(", ")", ","}, {"NOT", "EXISTS"}, 15)
S3 == From(<<"Any", "X", "WHERE">>, {"X", "r", "OR", "AND", ",", "NOT"}, {}, 15)
S4 == From(<<"Any", "X", "WHERE">>, {"X", "?", "r", ">", "1", "IN", "(", ")", ","}, {"IN", "r", "X"}, 12)
S5 == From(<<"Any">>, {"X", "1", "+", "-", "*", "(", ")", "F", ","}, {"F", "X"}, 8)
S6 == From(<<"Any", "X", "HAVING">>, {"X", ">", "IN", "NOT", "OR", "(", ")", ",", "?"}, {"NOT", "IN", "OR", "X"}, 12)
S7 == From(<<>>, {"DISTINCT", "Any", "Person", "X", ",", "GROUPBY", "ORDERBY", "DESC", "UNION", "(", ")"}, {"UNION"}, 8)
S8 == From(<<"Any", "X">>, {"LIMIT", "OFFSET", "0", "1", "WHERE", "X", "r", "1"}, {}, 13)
S9 == From(<<"Any", "X", "WITH">>, {"X", "Y", ",", "BEING", "Any", "UNION", "(", ")"}, {"BEING", "UNION"}, 14)
SA == From(<<>>, {"DELETE", "INSERT", "SET", "Any", "Person", "X", "Y", "r", ":", ","}, {}, 9)
MCSamples == {S1,S2,S3,S4,S5,S6,S7,S8,S9,SA}
=============================================================================
