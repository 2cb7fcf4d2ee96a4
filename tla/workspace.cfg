SPECIFICATION FairSpec
CONSTANTS
  u1 = u1
  u2 = u2
  u3 = u3
  s1 = s1
  s2 = s2
  Users <- MCUsers
  Founder = u1
  Sessions <- MCSessions
  NoUser = NoUser
  Workspace = Workspace
  MaxCalls = 3
  MaxRows = 2
INVARIANTS
  TypeOK
  OneOwner
  PersonalHasMember
  OrderedLocks
PROPERTIES
  AdminTakenByOwner
  CallsEnd
CHECK_DEADLOCK FALSE
