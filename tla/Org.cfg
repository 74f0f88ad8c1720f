SPECIFICATION Spec
CONSTANTS
  ann = ann
  max = max
  r1 = r1
  r2 = r2
  c1 = c1
  c2 = c2
  n1 = n1
  n2 = n2
  t1 = t1
  t2 = t2
  Users = {ann, max}
  Companies = {c1, c2}
  CompanyNames = {n1, n2}
  Teams = {t1, t2}
  Lists <- SomeLists
  GivenRoles = {"ADMIN", "MANAGER"}
  Requests = {r1, r2}
  None = None
SYMMETRY Alike
INVARIANTS OneCompanyPerName MembersInCompany MembersAsListed
PROPERTY AdminRemains
CHECK_DEADLOCK FALSE
