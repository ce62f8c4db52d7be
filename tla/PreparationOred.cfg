SPECIFICATION Spec
CONSTANTS
  Final = {"n", "eid"}
  Inlined = {"i"}
  Symmetric = {"s"}
  Aggregate = {"MAX"}
  Cardinality1 <- MCCardinality1
  Queries <- MCOred
  Entities <- MCEntities
  Databases <- MCDatabases
INVARIANT SimplifyAlwaysKeepsAnswers
CHECK_DEADLOCK FALSE
