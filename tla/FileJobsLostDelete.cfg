SPECIFICATION Spec
CONSTANTS
  t1 = t1
  f1 = f1
  f2 = f2
  k1 = k1
  k2 = k2
  Tasks = {t1}
  Files = {f1, f2}
  Keys = {k1, k2}
  TaskOf <- OneTask
  KeyOf <- TwoNames
  Requests = {r1, r2}
  Workers = {w1}
  MaxAttempts = 2
  MaxStalls = 1
  StorageFails = TRUE
  DbFails = FALSE
  DbAnswersLost = FALSE
  Crashes = FALSE
  PatientClients = FALSE
  NoFile = NoFile
  NoPath = NoPath
  NoJob = NoJob
PROPERTY DeletionSticks
CHECK_DEADLOCK FALSE
