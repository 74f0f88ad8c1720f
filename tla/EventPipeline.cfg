SPECIFICATION FairSpec
CONSTANTS
  Users = {u1, u2}
  Ops = {o1}
  Attempts <- TwoAttempts
  MaxStalls = 1
  MaxFaults = 2
  NoUser = NoUser
INVARIANTS OncePerRun NoticeBeforeLog LostOnlyWithUser
PROPERTIES EventsAreTold JobsSettle
CHECK_DEADLOCK FALSE
