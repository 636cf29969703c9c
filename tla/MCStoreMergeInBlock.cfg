CONSTANTS
  Reg = {s1, s2}
  Array = {a1, a2, a3}
  NoArray = NoArray
  Name = {"x"}
  Unnamed = ""
  DefinableName = {"x"}
  Permission = {"n", "r"}
  NoPerm = "nil"
  Err = "err"
  Intersect <- MCIntersect
  MaxLen = 2
  MaxUses = 1
SPECIFICATION Spec
INVARIANT MergeIsDefined
