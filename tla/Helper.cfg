SPECIFICATION Spec
CONSTANTS
  Thread = {t1, t2}
  Schema = {s1, s2, s3}
  Reserved = {s3}
  FirstSchema = s1
  Mapping = {m1}
  DefaultMapping = m0
  None = None
  NoOne = NoOne
  MaxReads = 2
  MaxChanges = 2
INVARIANTS VisitKeepsItsArguments NoForeignMapping CallsSeeOneSchema SchemasSettle
PROPERTY LocksAreReleased
CONSTRAINT NoRace
