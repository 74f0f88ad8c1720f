SPECIFICATION Spec
CONSTANTS
  t1 = t1
  f1 = f1
  f2 = f2
  k1 = k1
  k2 = k2
  Tasks = {t1}
  Files = {f1}
  Keys = {k1}
  TaskOf <- OneFile
  KeyOf <- OneName
  Requests = {r1, r2, r3}
  Workers = {w1, w2}
  MaxAttempts = 2
  MaxStalls = 1
  StorageFails = TRUE
  DbFails = TRUE
  DbAnswersLost = TRUE
  Crashes = TRUE
  PatientClients = FALSE
  NoFile = NoFile
  NoPath = NoPath
  NoJob = NoJob
INVARIANTS OneCopy OwnBytes
PROPERTY ImplementsPool
SYMMETRY RequestsAndWorkers
CHECK_DEADLOCK FALSE
