CONSTANTS
  Err = Err
  NoPerm = NoPerm
  Unnamed = ""
  Name <- MCName
  Statement <- Freezing
  InitStore <- MCInitStore
  InitReach <- MCInitReach
  curFunc <- MCcurFunc
  Annotated <- MCAnnotated
  MaxStatements = 1
SPECIFICATION Spec
INVARIANT OneUser
CHECK_DEADLOCK FALSE
