SPECIFICATION Spec
CONSTANTS
  s0 = s0
  s1 = s1
  s2 = s2
  s3 = s3
  X = X
  Y = Y
  Z = Z
  Person = Person
  Student = Student
  Company = Company
  Address = Address
  String = String
  Select = {s0, s1, s2, s3}
  Var = {X, Y, Z}
  Type = {Person, Student, Company, Address, String}
  Final = {String}
  RelationType = {"located", "works_for", "friend", "identity", "name"}
  Associations <- MCAssociations
  Specialized <- MCSpecialized
  Uid = {"name"}
  Null = Null
  Expr = Expr
  Queries <- MCQueries
INVARIANTS SolutionsFit SolutionsAreComplete TypesAgree BackendsAgree
PROPERTY AllSolutionsKeepSolutions
