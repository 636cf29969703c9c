CONSTANTS
  Name = {"x", "c", "p", "k", "v", "a"}
  Unnamed = ""
  Permission = {"n", "r", "m"}
  NoPerm = "nil"
  Err = "err"
  Intersect <- MCIntersect
  Dead <- MCDead
  Stmts <- MCStmts
  Body <- EveryBody
  Outer <- OuterTwo
  Param <- MCParam
  Readable = {"r", "m"}
  Owned = {"m"}
  Fresh = "m"
  KeyOf <- MCKeyOf
  ElementOf <- MCElementOf
  Copyable <- MCCopyable
  Movable <- MCMovable
  Logged = "a"
CHECK_DEADLOCK FALSE
SPECIFICATION RunSpec
INVARIANTS
  Foreseen
  NeverFaults
