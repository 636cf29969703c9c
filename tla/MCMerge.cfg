CONSTANTS
  Object <- MCObject
  shape <- MCshape
  Queries <- MCQueries
SPECIFICATION Spec
INVARIANTS
  TypeOK
  IInv
  NothingUnfinished
  IntersectIsSubset
  UnionIsSuperset
  NothingIsLost
  ConvertTakesGoal
  ConvertIsIdempotent
  ConvertIsConsistent
PROPERTIES
  ImplementsOracle
