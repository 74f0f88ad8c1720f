SPECIFICATION FairSpec
CONSTANTS
  t1 = t1
  f1 = f1
  f2 = f2
  k1 = k1
  k2 = k2
  Tasks = {t1}
  Files = {f1}
  Keys = {k1}
  TaskOf <- OneFile
  KeyOf <- OneName
  Requests = {r1, r2, r3}
  Workers = {w1, w2}
  MaxAttempts = 3
  MaxStalls = 1
  StorageFails = TRUE
  DbFails = FALSE
  DbAnswersLost = FALSE
  Crashes = FALSE
  PatientClients = TRUE
  NoFile = NoFile
  NoPath = NoPath
  NoJob = NoJob
PROPERTIES KeepsLifecycle WorkEnds
CHECK_DEADLOCK FALSE
