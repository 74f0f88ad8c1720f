SPECIFICATION Spec
CONSTANTS
  t1 = t1
  t2 = t2
  you = you
  Tasks = {t1, t2}
  Users = {me, you}
  Teams = {mine}
  Assignee <- AllYours
  TeamOf <- OneTeam
  MyTeam = mine
  Priorities = {"LOW", "HIGH"}
  Kinds <- SomeKinds
  Queries <- SomeQueries
  MaxChanges = 1
  NoFilter = NoFilter
  NotRead = NotRead
INVARIANTS StatusesFit PrioritiesFit RankFits RatesFit
CHECK_DEADLOCK FALSE
