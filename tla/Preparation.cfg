SPECIFICATION Spec
CONSTANTS
  Final = {"n", "eid"}
  Inlined = {"i"}
  Symmetric = {"s"}
  Aggregate = {"MAX"}
  Cardinality1 <- MCCardinality1
  Queries <- MCQueries
  Entities <- MCEntities
  Databases <- MCDatabases
INVARIANTS
  TreeIsSound AnnotationIsCurrent BareSubjectsAreShared
  OptionalsAreLocal SimplifyKeepsAnswers SimplifyFinishes SortIsOneValue
PROPERTY AnnotationIsStable
CHECK_DEADLOCK FALSE
