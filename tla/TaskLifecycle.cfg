SPECIFICATION Spec
CONSTANTS
  mgr = mgr
  adm = adm
  emp = emp
  tm1 = tm1
  c1 = c1
  Tasks = {k1}
  Users = {mgr, adm, emp}
  Teams = {tm1}
  Companies = {c1}
  Role <- Roles
  CompanyOf <- OneFirm
  MemberOf <- Members
  TeamCompany <- FirmOf
  ManagerOf <- Managers
  Requests = {r1, r2, r3, r4}
  NoUser = NoUser
  NoTeam = NoTeam
  NoCompany = NoCompany
  Same = Same
PROPERTIES DeletedStays CancelledIsFixed WriterHasRight KeepsFlow
SYMMETRY RequestSymmetry
CHECK_DEADLOCK FALSE
