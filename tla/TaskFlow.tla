------------------------------ MODULE TaskFlow ------------------------------
(***************************************************************************)
(* The life of a task as validateStatusTransition states it: a task starts *)
(* in any status, moves from PENDING to IN_PROGRESS to COMPLETED, and      *)
(* never leaves COMPLETED or CANCELLED but by being deleted.               *)
(***************************************************************************)
CONSTANT Tasks

VARIABLE status

States == {"PENDING", "IN_PROGRESS", "COMPLETED", "CANCELLED"}

FlowInit == status = [t \in Tasks |-> "unborn"]

Move(t, from, to) == status[t] = from /\ status' = [status EXCEPT ![t] = to]

FlowNext ==
  \E t \in Tasks :
    \/ \E s \in States : Move(t, "unborn", s)
    \/ Move(t, "PENDING", "IN_PROGRESS")
    \/ Move(t, "IN_PROGRESS", "COMPLETED")
    \/ \E s \in States : Move(t, s, "removed")

FlowSpec == FlowInit /\ [][FlowNext]_status
=============================================================================
