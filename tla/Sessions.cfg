SPECIFICATION Spec
CONSTANTS
  Users = {u1}
  Requests = {r1, r2, r3, r4}
  MaxTime = 3
  JwtLife = 3
  RowLife = 2
  Faults = TRUE
  NoUser = NoUser
  NoToken = NoToken
INVARIANTS RotationConsumes NoSessionWithoutUser OneTokenPerSignIn LogoutEndsSessions
PROPERTY NeverRevived
SYMMETRY RequestSymmetry
CHECK_DEADLOCK FALSE
