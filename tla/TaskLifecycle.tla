--------------------------- MODULE TaskLifecycle ---------------------------
(***************************************************************************)
(* Creating, updating and deleting tasks.  Each service reads rows, checks *)
(* them, and writes in a later database call, without a transaction; other *)
(* requests, and the deletion of users, run in between.                    *)
(***************************************************************************)
CONSTANTS
  Tasks,        \* ids of the tasks table, each handed out once
  Users,        \* users that exist when the model starts
  Teams, Companies,
  Role,         \* users.role
  CompanyOf,    \* users.companyId, NoCompany for a MASTER
  MemberOf,     \* users.teamId, NoTeam for nobody's member
  TeamCompany,  \* teams.companyId
  ManagerOf,    \* teams.managerId
  Requests,     \* HTTP requests, each served once
  NoUser, NoTeam, NoCompany,
  Same          \* an update that names no assignee

ASSUME OrgAssumption ==
  /\ Role \in [Users -> {"MASTER", "ADMIN", "MANAGER", "EMPLOYEE"}]
  /\ CompanyOf \in [Users -> Companies \cup {NoCompany}]
  /\ MemberOf \in [Users -> Teams \cup {NoTeam}]
  /\ TeamCompany \in [Teams -> Companies]
  /\ ManagerOf \in [Teams -> Users]
ASSUME NamesAssumption ==
  /\ NoUser \notin Users /\ NoTeam \notin Teams /\ NoCompany \notin Companies
  /\ Same \notin Users \cup {NoUser}

VARIABLES
  users,     \* rows of the users table
  status,    \* tasks.status, or why there is no row
  creator,   \* tasks.createdById
  assignee,  \* tasks.assignedToId
  team,      \* tasks.teamId
  req,       \* the requests
  serial     \* no two updates of a task overlapped (history)

vars == <<users, status, creator, assignee, team, req, serial>>

TaskStatus == {"PENDING", "IN_PROGRESS", "COMPLETED", "CANCELLED"}

HasRow(t) == status[t] \in TaskStatus

\* validTransitions
Transitions == {<<"PENDING", "IN_PROGRESS">>, <<"IN_PROGRESS", "COMPLETED">>}

Idle == [pc |-> "idle"]

----------------------------------------------------------------------------
Init ==
  /\ users = Users
  /\ status = [t \in Tasks |-> "unborn"]
  /\ creator = [t \in Tasks |-> NoUser]
  /\ assignee = [t \in Tasks |-> NoUser]
  /\ team = [t \in Tasks |-> NoTeam]
  /\ req = [r \in Requests |-> Idle]
  /\ serial = TRUE

InService(t) == {q \in Requests : req[q].pc \in {"creating", "updating", "deleting"}
                                    /\ req[q].task = t}

Updating(t) == {q \in InService(t) : req[q].pc = "updating"}

Enter(r, t, request) ==
  /\ req' = [req EXCEPT ![r] = request]
  /\ serial' = (serial /\ (request.pc = "updating" => Updating(t) = {}))

\* Served: what it carried is forgotten.
End(r, how) == req' = [req EXCEPT ![r] = [pc |-> how]]

\* TaskCreateService.create, the checks: the team is the manager's own and of the
\* caller's company, and the assignee is of the team's company.
CreateBegin(r, u, t, tm, s, a) ==
  /\ req[r].pc = "idle"
  /\ u \in users
  /\ status[t] = "unborn" /\ InService(t) = {}
  /\ Role[u] = "MANAGER" => ManagerOf[tm] = u
  /\ CompanyOf[u] # NoCompany => TeamCompany[tm] = CompanyOf[u]
  /\ a # NoUser => a \in users /\ CompanyOf[a] = TeamCompany[tm]
  /\ Enter(r, t, [pc |-> "creating", by |-> u, task |-> t,
                    team |-> tm, status |-> s, assign |-> a])
  /\ UNCHANGED <<users, status, creator, assignee, team>>

\* The insert; the foreign keys refuse a user that is gone by now.
CreateInsert(r) ==
  /\ req[r].pc = "creating"
  /\ LET t == req[r].task IN
       \/ /\ {req[r].by, req[r].assign} \subseteq users \cup {NoUser}
          /\ status' = [status EXCEPT ![t] = req[r].status]
          /\ creator' = [creator EXCEPT ![t] = req[r].by]
          /\ assignee' = [assignee EXCEPT ![t] = req[r].assign]
          /\ team' = [team EXCEPT ![t] = req[r].team]
          /\ End(r, "done")
       \/ /\ ~({req[r].by, req[r].assign} \subseteq users \cup {NoUser})
          /\ End(r, "error")
          /\ UNCHANGED <<status, creator, assignee, team>>
  /\ UNCHANGED <<users, serial>>

\* Mistaken variants (here and below), which the code never runs: they show that
\* a property notices a slip in the operation that follows.
UpdateBegin_AnyStatus(r, u, t, s, a) ==
  /\ req[r].pc = "idle"
  /\ u \in users
  /\ HasRow(t)
  /\ u \in {creator[t], assignee[t]}
  /\ Enter(r, t, [pc |-> "updating", by |-> u, task |-> t,
                    status |-> s, assign |-> a])
  /\ UNCHANGED <<users, status, creator, assignee, team>>

UpdateBegin_Anybody(r, u, t, s, a) ==
  /\ req[r].pc = "idle"
  /\ u \in users
  /\ HasRow(t)
  /\ s = status[t] \/ <<status[t], s>> \in Transitions
  /\ Enter(r, t, [pc |-> "updating", by |-> u, task |-> t,
                    status |-> s, assign |-> a])
  /\ UNCHANGED <<users, status, creator, assignee, team>>

\* TaskUpdateService.update, the read and the checks: caller is creator or
\* assignee, the status asked for (which a request must name) is the one read here or
\* may follow it, and a new assignee is a member of the task's team and company.
UpdateBegin(r, u, t, s, a) ==
  /\ req[r].pc = "idle"
  /\ u \in users
  /\ HasRow(t)
  /\ u \in {creator[t], assignee[t]}
  /\ s = status[t] \/ <<status[t], s>> \in Transitions
  /\ a \notin {Same, NoUser, assignee[t]} =>
       /\ a \in users
       /\ MemberOf[a] = team[t]
       /\ CompanyOf[a] = TeamCompany[team[t]]
  /\ Enter(r, t, [pc |-> "updating", by |-> u, task |-> t,
                    status |-> s, assign |-> a])
  /\ UNCHANGED <<users, status, creator, assignee, team>>

UpdateWrite_Upsert(r) ==
  /\ req[r].pc = "updating"
  /\ status' = [status EXCEPT ![req[r].task] = req[r].status]
  /\ End(r, "done")
  /\ UNCHANGED <<users, creator, assignee, team, serial>>

\* The write: the status asked for, whatever the row's is by now; never the
\* assignee, which is not in the data.
UpdateWrite(r) ==
  /\ req[r].pc = "updating"
  /\ LET t == req[r].task IN
       \/ /\ HasRow(t)
          /\ status' = [status EXCEPT ![t] = req[r].status]
          /\ End(r, "done")
       \/ /\ ~HasRow(t)
          /\ End(r, "error")
          /\ UNCHANGED status
  /\ UNCHANGED <<users, creator, assignee, team, serial>>

\* TaskDeleteService.delete behind @Roles(ADMIN, MANAGER), which a MASTER passes.
DeleteBegin(r, u, t) ==
  /\ req[r].pc = "idle"
  /\ u \in users
  /\ Role[u] \in {"MASTER", "ADMIN", "MANAGER"}
  /\ HasRow(t)
  /\ TeamCompany[team[t]] = CompanyOf[u] \/ Role[u] = "ADMIN"
  /\ Enter(r, t, [pc |-> "deleting", by |-> u, task |-> t])
  /\ UNCHANGED <<users, status, creator, assignee, team>>

DeleteWrite(r) ==
  /\ req[r].pc = "deleting"
  /\ LET t == req[r].task IN
       \/ /\ HasRow(t)
          /\ status' = [status EXCEPT ![t] = "removed"]
          /\ End(r, "done")
       \/ /\ ~HasRow(t)
          /\ End(r, "error")
          /\ UNCHANGED status
  /\ UNCHANGED <<users, creator, assignee, team, serial>>

\* UserDeleteService.delete: not oneself, a manager only in the own company and
\* no ADMIN; a team's manager is held by a foreign key; the tasks lose the user.
DeleteUser(by, u) ==
  /\ {by, u} \subseteq users /\ by # u
  /\ Role[by] \in {"MASTER", "ADMIN", "MANAGER"}
  /\ Role[by] = "MANAGER" => CompanyOf[u] = CompanyOf[by] /\ Role[u] # "ADMIN"
  /\ \A tm \in Teams : ManagerOf[tm] # u
  /\ users' = users \ {u}
  /\ creator' = [t \in Tasks |-> IF creator[t] = u THEN NoUser ELSE creator[t]]
  /\ assignee' = [t \in Tasks |-> IF assignee[t] = u THEN NoUser ELSE assignee[t]]
  /\ UNCHANGED <<status, team, req, serial>>

Next ==
  \/ \E r \in Requests :
       \/ \E u \in Users, t \in Tasks, tm \in Teams, s \in TaskStatus, a \in Users \cup {NoUser} :
            CreateBegin(r, u, t, tm, s, a)
       \/ CreateInsert(r)
       \/ \E u \in Users, t \in Tasks, s \in TaskStatus, a \in Users \cup {NoUser, Same} :
            UpdateBegin(r, u, t, s, a)
       \/ UpdateWrite(r)
       \/ \E u \in Users, t \in Tasks : DeleteBegin(r, u, t)
       \/ DeleteWrite(r)
  \/ \E by, u \in Users : DeleteUser(by, u)

Spec == Init /\ [][Next]_vars

----------------------------------------------------------------------------
(* Properties *)

ReqType ==
  [pc : {"idle", "done", "error"}]
  \cup [pc : {"creating"}, by : Users, task : Tasks, team : Teams,
        status : TaskStatus, assign : Users \cup {NoUser}]
  \cup [pc : {"updating"}, by : Users, task : Tasks,
        status : TaskStatus, assign : Users \cup {NoUser, Same}]
  \cup [pc : {"deleting"}, by : Users, task : Tasks]

TypeOK ==
  /\ users \subseteq Users
  /\ status \in [Tasks -> TaskStatus \cup {"unborn", "removed"}]
  /\ creator \in [Tasks -> Users \cup {NoUser}]
  /\ assignee \in [Tasks -> Users \cup {NoUser}]
  /\ team \in [Tasks -> Teams \cup {NoTeam}]
  /\ req \in [Requests -> ReqType]
  /\ serial \in BOOLEAN

\* No update in flight brings a deleted task back.
DeletedStays == [][\A t \in Tasks : status[t] = "removed" => status'[t] = "removed"]_vars

\* A task is CANCELLED from its creation or never, and until it is deleted: no
\* interleaving of updates enters or leaves that status.
CancelledIsFixed ==
  [][\A t \in Tasks : HasRow(t) /\ HasRow(t)' =>
       (status[t] = "CANCELLED" <=> status'[t] = "CANCELLED")]_vars

\* An update is applied only for the task's creator or assignee as of the write,
\* or for a user deleted since the check.
WriterHasRight ==
  [][\A r \in Requests :
       req[r].pc = "updating" /\ req'[r].pc = "done" =>
         req[r].by \in {creator[req[r].task], assignee[req[r].task]}
         \/ req[r].by \notin users]_vars

\* "Handle assignment change": once an update that names a new assignee, who
\* passed the checks, has been applied, the task is assigned to that user.
AssignmentSticks ==
  [][\A r \in Requests :
       req[r].pc = "updating" /\ req'[r].pc = "done" /\ req[r].assign \in Users =>
         assignee'[req[r].task] = req[r].assign]_vars

\* As long as no two updates of a task overlap, every step is a step of the life that
\* validateStatusTransition states: a deletion, or the deletion of users, in the
\* middle of an update does not bring an older status back.
Flow == INSTANCE TaskFlow
KeepsFlow == Flow!FlowInit /\ [][serial => Flow!FlowNext]_status
=============================================================================
