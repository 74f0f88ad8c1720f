SPECIFICATION Spec
CONSTANTS
  u1 = u1
  u2 = u2
  j1 = j1
  c1 = c1
  Sockets = {s1, s2}
  Users = {u1, u2}
  Teams = {t1}
  Companies = {c1}
  CompanyOf <- Firm
  NoCompany = NoCompany
  Undefined = Undefined
  Jobs = {j1}
  Addressee <- Addressees
  Attempts = 2
  MaxStalls = 1
  NotYet = NotYet
INVARIANTS GhostsDropped OnlyItsUser NothingMissed ToldOnce
PROPERTIES ReachesOnline
CHECK_DEADLOCK FALSE
SYMMETRY SocketSymmetry
