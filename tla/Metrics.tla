------------------------------ MODULE Metrics ------------------------------
(***************************************************************************)
(* One report of MetricsService.  Its numbers are separate count queries,  *)
(* sent together and answered in any order while other requests write: no  *)
(* statement sees the others' snapshot.  A write may change many rows of   *)
(* the report at once: a team that is given to another company takes all   *)
(* its tasks along, a deleted user leaves all of theirs, and a list of     *)
(* members is two updates of many users.  So changes counts rows.          *)
(*                                                                         *)
(* No service writes team or assignee of a task after its creation; what   *)
(* changes is the company of the team, and the assignee when deleted.  The *)
(* period asked for outlasts the report, so what is created or changed     *)
(* meanwhile falls into it; the old tasks of the query were created before *)
(* it.  For the period that is the default, which ends as the report       *)
(* begins, fewer changes are seen.                                         *)
(***************************************************************************)
EXTENDS Integers, FiniteSets, FiniteSetsExt, Functions

CONSTANTS
  Tasks, Users, Teams,
  Assignee,     \* of each task, as it is created: a user or NoFilter
  TeamOf,       \* of each task
  MyTeam,       \* the caller's team, of a manager or an employee
  Priorities,   \* bound: LOW, MEDIUM, HIGH and URGENT are treated alike
  Kinds,        \* bound: what is told of a task, of all there may be
  Queries,      \* bound: the filters asked for
  MaxChanges,   \* bound: no write begins once so many rows have changed
  NoFilter,     \* a filter the query does not have, no assignee
  NotRead       \* a query that is not answered yet

TaskStatus == {"PENDING", "IN_PROGRESS", "COMPLETED", "CANCELLED"}
Roles      == {"ADMIN", "MANAGER", "EMPLOYEE"}

Rows       == [status : TaskStatus, priority : Priorities, overdue : BOOLEAN]

ASSUME AssigneeAssumption == Assignee \in [Tasks -> Users \cup {NoFilter}]
ASSUME TeamsAssumption == TeamOf \in [Tasks -> Teams] /\ MyTeam \in Teams
ASSUME TasksAssumption == IsFiniteSet(Tasks) /\ Kinds \subseteq Rows
ASSUME UsersAssumption == IsFiniteSet(Users) /\ NoFilter \notin Users
ASSUME PrioritiesAssumption ==
  /\ IsFiniteSet(Priorities)
  /\ Priorities \cap (TaskStatus \cup {"total", "overdue", "rank", "members"}) = {}
ASSUME NotReadAssumption == NotRead \notin Nat /\ \A S \in SUBSET Users : NotRead # S
ASSUME MaxChangesAssumption == MaxChanges \in Nat

ASSUME QueriesAssumption ==
  Queries \subseteq [status : TaskStatus \cup {NoFilter}, priority : Priorities \cup {NoFilter},
                      user : Users \cup {NoFilter}, old : SUBSET Tasks]

VARIABLES
  task,      \* of each task its status, priority and whether it is overdue, or Absent
  users,     \* users there are
  company,   \* teams of the company an ADMIN reports on
  member,    \* users of the caller's team; an ADMIN has none
  role,      \* the caller's role
  caller,    \* who asks
  query,     \* status, priority and user asked for, and the tasks older than its start
  report,    \* the numbers answered so far
  staff,     \* the direct reports of a manager, once read
  tally,     \* what was counted of each of these
  changes    \* rows changed since the report was asked for (history)

data   == <<task, users, company, member>>
asked  == <<role, caller, query>>
vars   == <<task, users, company, member, role, caller, query, report, staff, tally, changes>>

Absent == [status |-> "none", priority |-> NoFilter, overdue |-> FALSE]
Shown  == {"PENDING", "IN_PROGRESS", "COMPLETED"}
Numbers == {"total", "overdue"} \cup Shown \cup Priorities
RankKeys == {"rank", "members"}

StaffKeys == {"assigned", "completed"} \X Users

\* The numbers of a report: only an employee's has a rank.
Keys == Numbers \cup (IF role = "EMPLOYEE" THEN RankKeys ELSE {})

----------------------------------------------------------------------------
(* The queries *)

\* Task.assignedToId, which the deletion of the user sets to null.
Assigned(t) == IF Assignee[t] \in users THEN Assignee[t] ELSE NoFilter

Matches(x, filter) == filter = NoFilter \/ x = filter

\* The tasks a role reports on: the company's (for a MASTER company by company,
\* with the same queries), the team's, or the caller's own.
Scope ==
  {t \in Tasks : /\ task[t] # Absent /\ t \notin query.old
                 /\ role = "ADMIN"    => TeamOf[t] \in company
                 /\ role = "MANAGER"  => TeamOf[t] = MyTeam
                 /\ role = "EMPLOYEE" => Assigned(t) = caller
                 /\ role # "EMPLOYEE" => Matches(Assigned(t), query.user)}

\* Mistaken variants (here and below), which the code does not have: they show
\* that a property notices a slip in the operation that follows.
Where_OverdueKeepsDone(k, t) ==
  /\ k \in Shown => task[t].status = k
  /\ k \in Priorities => task[t].priority = k
  /\ k = "overdue" => task[t].overdue
  /\ k \notin Shown \cup {"overdue"} => Matches(task[t].status, query.status)
  /\ k \notin Priorities => Matches(task[t].priority, query.priority)

Where_PriorityDropped(k, t) ==
  /\ k \in Shown => task[t].status = k
  /\ k = "overdue" => task[t].overdue /\ task[t].status # "COMPLETED"
  /\ k \notin Shown \cup {"overdue"} => Matches(task[t].status, query.status)
  /\ Matches(task[t].priority, query.priority)

\* A key that names a status or priority replaces that filter of the query, as the
\* later property does in { ...taskFilter, status: 'PENDING' }.
Where(k, t) ==
  /\ k \in Shown => task[t].status = k
  /\ k \in Priorities => task[t].priority = k
  /\ k = "overdue" => task[t].overdue /\ task[t].status # "COMPLETED"
  /\ k \notin Shown \cup {"overdue"} => Matches(task[t].status, query.status)
  /\ k \notin Priorities => Matches(task[t].priority, query.priority)

\* prisma.task.count
Number(k) == Cardinality({t \in Scope : Where(k, t)})

StaffTasks_Filtered(k) ==
  {t \in Tasks : /\ TeamOf[t] = MyTeam /\ Assigned(t) = k[2] /\ task[t] # Absent
                 /\ k[1] = "assigned" => t \notin query.old /\ Matches(task[t].status, query.status)
                 /\ k[1] = "completed" => task[t].status = "COMPLETED"}

\* What counts for a direct report, whatever the query's filters: as assigned what
\* was created in the period, as completed what was last changed in it.
StaffTasks(k) ==
  {t \in Tasks : /\ TeamOf[t] = MyTeam /\ Assigned(t) = k[2] /\ task[t] # Absent
                 /\ k[1] = "assigned" => t \notin query.old
                 /\ k[1] = "completed" => task[t].status = "COMPLETED"}

\* Completed tasks of a member, changed in the period whenever they were created.
Done(u) == Cardinality({t \in Tasks : Assigned(t) = u /\ task[t].status = "COMPLETED"})

Rank_Ascending ==
  IF caller \notin member THEN {0}
  ELSE LET ahead == {u \in member : Done(u) < Done(caller)}
           level == {u \in member : Done(u) = Done(caller)}
       IN (Cardinality(ahead) + 1)..(Cardinality(ahead) + Cardinality(level))

\* sort and findIndex: the caller's place among the members, those with as many
\* completed tasks in the database's order; findIndex gives -1 for one who is gone.
Rank ==
  IF caller \notin member THEN {0}
  ELSE LET ahead == {u \in member : Done(u) > Done(caller)}
           level == {u \in member : Done(u) = Done(caller)}
       IN (Cardinality(ahead) + 1)..(Cardinality(ahead) + Cardinality(level))

----------------------------------------------------------------------------
Init ==
  /\ task \in [Tasks -> Kinds \cup {Absent}]
  /\ users = Users
  /\ role \in Roles /\ caller \in Users
  /\ company \in SUBSET Teams /\ (role # "ADMIN" => company = {})
  /\ member \in SUBSET Users /\ (role = "ADMIN" => member = {})
  /\ role = "EMPLOYEE" => caller \in member
  /\ query \in Queries
  /\ report = [k \in Numbers \cup RankKeys |-> NotRead]
  /\ staff = NotRead
  /\ tally = [k \in StaffKeys |-> NotRead]
  /\ changes = 0

Read(k, values) ==
  /\ report[k] = NotRead
  /\ \E n \in values : report' = [report EXCEPT ![k] = n]
  /\ UNCHANGED <<data, asked, staff, tally, changes>>

ReadNumber(k) == k \in Numbers /\ Read(k, {Number(k)})

\* The direct reports are read beside the numbers, and their tasks counted after
\* all of these.
ReadStaff ==
  /\ role = "MANAGER" /\ staff = NotRead
  /\ staff' = member
  /\ UNCHANGED <<data, asked, report, tally, changes>>

NumbersRead == \A k \in Numbers : report[k] # NotRead
StaffIsDue  == role = "MANAGER" /\ staff # NotRead /\ NumbersRead

ReadStaffTasks(k) ==
  /\ StaffIsDue /\ k[2] \in staff /\ tally[k] = NotRead
  /\ tally' = [tally EXCEPT ![k] = Cardinality(StaffTasks(k))]
  /\ UNCHANGED <<data, asked, report, staff, changes>>

\* The team is read after the numbers are.
RankIsDue   == role = "EMPLOYEE" /\ NumbersRead
ReadRank    == RankIsDue /\ Read("rank", Rank)
ReadMembers == RankIsDue /\ Read("members", {Cardinality(member)})

Complete ==
  /\ role = "MANAGER" =>
       staff # NotRead /\ \A k \in StaffKeys : k[2] \in staff => tally[k] # NotRead
  /\ \A k \in Keys : report[k] # NotRead

Unfinished == ~Complete /\ changes < MaxChanges

\* A write changes the rows of these.
Change(rows) ==
  /\ Unfinished
  /\ changes' = changes + Cardinality(rows)
  /\ UNCHANGED <<asked, report, staff, tally>>

\* Another request creates, updates or deletes a task.
ChangeTask(t) ==
  /\ Change({t})
  /\ task[t] = Absent => t \notin query.old
  /\ \E r \in Kinds \cup {Absent} : r # task[t] /\ task' = [task EXCEPT ![t] = r]
  /\ UNCHANGED <<users, company, member>>

TasksOf(g) == {t \in Tasks : TeamOf[t] = g /\ task[t] # Absent}

\* TeamUpdateService.update gives a team to the company or takes it away, and its
\* tasks with it.  (Only an ADMIN's report asks whose company a team is.)
MoveTeam(g) ==
  /\ role = "ADMIN"
  /\ Change(TasksOf(g))
  /\ company' = IF g \in company THEN company \ {g} ELSE company \cup {g}
  /\ UNCHANGED <<task, users, member>>

\* One of its two writes of the members: those of the list that are not in the team
\* join it, or those in the team that are not in the list leave it.
ChangeTeam(U) ==
  /\ role # "ADMIN"
  /\ U # {} /\ U \subseteq users
  /\ Change(U)
  /\ \/ U \cap member = {} /\ member' = member \cup U
     \/ U \subseteq member  /\ member' = member \ U
  /\ UNCHANGED <<task, users, company>>

TasksLeft(u) == {t \in Tasks : Assigned(t) = u /\ task[t] # Absent}

\* UserDeleteService.delete: the foreign key sets the assignee of all the user's tasks to
\* null.  A manager is not deleted: the team's row refuses it.
DeleteUser(u) ==
  /\ u \in users /\ ~(role = "MANAGER" /\ u = caller)
  /\ Change(TasksLeft(u) \cup {u})
  /\ users' = users \ {u}
  /\ member' = member \ {u}
  /\ UNCHANGED <<task, company>>

Next ==
  \/ \E k \in Numbers : ReadNumber(k)
  \/ ReadRank \/ ReadMembers \/ ReadStaff
  \/ \E k \in StaffKeys : ReadStaffTasks(k)
  \/ \E t \in Tasks : ChangeTask(t)
  \/ \E g \in Teams : MoveTeam(g)
  \/ \E U \in SUBSET Users : ChangeTeam(U)
  \/ \E u \in Users : DeleteUser(u)

Spec == Init /\ [][Next]_vars

----------------------------------------------------------------------------
(* Properties: each number is true of some moment; how far apart can they be?  *)

TypeOK ==
  /\ task \in [Tasks -> Rows \cup {Absent}]
  /\ users \subseteq Users /\ member \subseteq users
  /\ company \subseteq Teams
  /\ role \in Roles /\ caller \in Users
  /\ query \in Queries
  /\ report \in [Numbers \cup RankKeys ->
                  {NotRead} \cup 0..(Cardinality(Tasks) + Cardinality(Users))]
  /\ staff \in {NotRead} \cup SUBSET Users
  /\ tally \in [StaffKeys -> {NotRead} \cup 0..Cardinality(Tasks)]
  /\ changes \in Nat

Near(m, n) == m <= n + changes /\ n <= m + changes

\* Without a status in the query, what the three shown statuses add up to exceeds
\* the total by no more than the rows changed meanwhile, and overdue tasks are not
\* among the done ones.
StatusesFit ==
  NumbersRead /\ query.status = NoFilter =>
    /\ report["PENDING"] + report["IN_PROGRESS"] + report["COMPLETED"]
         <= report["total"] + changes
    /\ report["overdue"] + report["COMPLETED"] <= report["total"] + changes

\* Without a priority in the query, the priorities add up to the total, up to the
\* rows changed meanwhile.
PrioritiesFit ==
  NumbersRead /\ query.priority = NoFilter =>
    Near(FoldFunctionOnSet(+, 0, report, Priorities), report["total"])

\* An employee who stays in the team has a place in it, not behind its last member
\* except by the rows changed between the two reads; and when nothing changes, at
\* least as many members are ahead as have completed more.
RankFits ==
  RankIsDue /\ Complete =>
    /\ report["rank"] <= report["members"] + changes
    /\ report["rank"] = 0 => changes > 0
    /\ changes = 0 => Cardinality({u \in member : Done(u) > Done(caller)}) < report["rank"]

\* The completion rate of a direct report, completed / assigned * 100, exceeds 100
\* only by tasks created before the period and by the rows changed between the two
\* counts, whatever status, priority or user the report was asked for.
RatesFit ==
  StaffIsDue /\ Complete =>
    \A u \in staff :
      tally[<<"completed", u>>] <= tally[<<"assigned", u>>] + changes
        + Cardinality({t \in query.old : TeamOf[t] = MyTeam /\ Assignee[t] = u})
=============================================================================
