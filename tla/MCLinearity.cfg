CONSTANTS
  Err = Err
  NoPerm = NoPerm
  Unnamed = ""
  Name <- MCName
  Statement <- Core
  InitStore <- MCInitStore
  InitReach <- MCInitReach
  curFunc <- MCcurFunc
  Annotated <- MCAnnotated
  MaxStatements = 3
SPECIFICATION Spec
INVARIANTS TypeOK OneUser
PROPERTIES LentOnce LentComesBack NothingGained AsIfWithTemporaries
CHECK_DEADLOCK FALSE
