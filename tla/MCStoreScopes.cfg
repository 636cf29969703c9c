CONSTANTS
  Reg = {s1, s2}
  Array = {a1, a2, a3}
  NoArray = NoArray
  Name = {"x"}
  Unnamed = ""
  DefinableName = {"x"}
  Permission = {"n", "r", "f"}
  NoPerm = "nil"
  Err = "err"
  Intersect <- MCIntersect
  MaxLen = 3
  MaxUses = 1
SPECIFICATION Spec
SYMMETRY Symmetry
VIEW Held
INVARIANTS
  TypeOK
  EffectiveWithinMaximum
  EqualMeansSameScopes
PROPERTIES
  MergeOnlyWeakens
  ImplementsScopeStack
