-------------------------- MODULE MCTaskLifecycle --------------------------
(***************************************************************************)
(* TaskLifecycle for TLC: one company with a manager, an admin and an      *)
(* employee, and a team of the manager's.                                  *)
(***************************************************************************)
EXTENDS TaskLifecycle, TLC

CONSTANTS mgr, adm, emp, tm1, c1

Roles     == mgr :> "MANAGER" @@ adm :> "ADMIN" @@ emp :> "EMPLOYEE"
OneFirm   == mgr :> c1 @@ adm :> c1 @@ emp :> c1
Members   == mgr :> tm1 @@ adm :> NoTeam @@ emp :> tm1
FirmOf    == tm1 :> c1
Managers  == tm1 :> mgr

RequestSymmetry == Permutations(Requests)
============================================================================
