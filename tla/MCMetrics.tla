----------------------------- MODULE MCMetrics -----------------------------
(***************************************************************************)
(* Metrics for TLC: two tasks of one team and one user, another user, two  *)
(* priorities.  So one write may change both tasks.                        *)
(***************************************************************************)
EXTENDS Metrics, TLC

CONSTANTS t1, t2, you

AllYours == [t \in Tasks |-> you]
OneTeam  == [t \in Tasks |-> MyTeam]

Kind(s, p, late) == [status |-> s, priority |-> p, overdue |-> late]

SomeKinds ==
  {Kind("PENDING", "LOW", FALSE), Kind("IN_PROGRESS", "HIGH", TRUE),
   Kind("COMPLETED", "LOW", TRUE), Kind("CANCELLED", "HIGH", FALSE)}

\* One without filters, and one with those of a status and a user, by whose start one
\* task is old.
SomeQueries ==
  {[status |-> NoFilter,  priority |-> NoFilter, user |-> NoFilter, old |-> {}],
   [status |-> "PENDING", priority |-> NoFilter, user |-> you,      old |-> {t1}]}
=============================================================================
