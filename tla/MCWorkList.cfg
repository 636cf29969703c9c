CONSTANTS
  Store <- MCStore
  Position = {1, 2}
  Root = Root
  Idle = Idle
  Equal <- MCEqual
  Behaviour <- MCBehaviour
CHECK_DEADLOCK FALSE
SPECIFICATION Spec
INVARIANTS
  TypeOK
  FollowsEveryPath
  SeesNothingTwice
PROPERTIES
  Terminates
  ImplementsSearch
