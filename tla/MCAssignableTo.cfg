CONSTANTS
  Object <- MCObject
  shape <- MCshape
  Queries <- MCQueries
SPECIFICATION Spec
INVARIANTS
  TypeOK
  MemoCertifies
  MoveTransitive
  CopyKeepsExclusivity
  ReferenceIsNonLinearMove
PROPERTIES
  ImplementsOracle
  NoWorkAfterFailure
  Termination
