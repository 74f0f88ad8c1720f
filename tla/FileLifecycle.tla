--------------------------- MODULE FileLifecycle ---------------------------
(***************************************************************************)
(* What the file endpoints promise their clients, without queue, workers   *)
(* or bucket: the life of a row of the files table as the task pages show  *)
(* it.  A file is pending until its upload succeeded or failed, a retry    *)
(* may still rescue it; a stored file may be asked to go, and either goes  *)
(* or is marked as not deletable; nothing brings it back.                  *)
(***************************************************************************)
CONSTANTS Files, Folders, FolderOf

VARIABLES
  status,  \* what a client that lists the task's files sees
  open     \* the tasks that still exist

lifeVars == <<status, open>>

Becomes(f, from, to) ==
  /\ status[f] \in from
  /\ status' = [status EXCEPT ![f] = to]
  /\ UNCHANGED open

LifeInit ==
  /\ status = [f \in Files |-> "unborn"]
  /\ open = Folders

Submit(f)     == FolderOf[f] \in open /\ Becomes(f, {"unborn"}, "PENDING")
Stored(f)     == Becomes(f, {"PENDING", "FAILED"}, "COMPLETED")
NotStored(f)  == Becomes(f, {"PENDING"}, "FAILED")
AskDelete(f)  == Becomes(f, {"COMPLETED", "DELETE_FAILED"}, "DELETING")
Deleted(f)    == Becomes(f, {"DELETING", "DELETE_FAILED"}, "removed")
NotDeleted(f) == Becomes(f, {"DELETING"}, "DELETE_FAILED")

\* A task goes with all the rows it has.
Close(t) ==
  /\ t \in open
  /\ open' = open \ {t}
  /\ status' = [f \in Files |-> IF FolderOf[f] = t /\ status[f] # "unborn"
                                THEN "removed" ELSE status[f]]

LifeNext ==
  \/ \E f \in Files : \/ Submit(f) \/ Stored(f) \/ NotStored(f)
                      \/ AskDelete(f) \/ Deleted(f) \/ NotDeleted(f)
  \/ \E t \in Folders : Close(t)

LifeSpec == LifeInit /\ [][LifeNext]_lifeVars

\* Work that is under way ends.
Progress ==
  \A f \in Files :
    /\ (status[f] = "PENDING") ~> (status[f] # "PENDING")
    /\ (status[f] = "DELETING") ~> (status[f] # "DELETING")

FairLifeSpec == LifeSpec /\ Progress
============================================================================
