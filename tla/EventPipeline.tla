--------------------------- MODULE EventPipeline ---------------------------
(***************************************************************************)
(* Creating tasks and users, as far as it is told to others: the events    *)
(* the services dispatch, the listeners that turn an event into jobs one   *)
(* after the other, and the processors that write logs and notifications   *)
(* and send mails.  Users are deleted meanwhile.                           *)
(*                                                                         *)
(* The queues are JobPools: which ready job is next makes no difference to *)
(* what is said here.  Teams are left out: TeamListener is not among the   *)
(* providers of EventsModule, so TEAM_CREATED has no listener.  So are the *)
(* events no service dispatches (TASK_STATUS_UPDATED, TASK_COMPLETED,      *)
(* EMPLOYEE_ADDED).                                                        *)
(***************************************************************************)
EXTENDS Naturals, Sequences, SequencesExt

CONSTANTS
  Users,
  Ops,          \* creations of tasks and users
  Attempts,     \* of each queue
  MaxStalls,    \* Bull's default, 1
  MaxFaults,    \* bound: how many faults happen in a behaviour
  NoUser

Queues == {"email", "notification", "log"}

ASSUME AttemptsAssumption == Attempts \in [Queues -> Nat \ {0}]
ASSUME BoundsAssumption == MaxStalls \in Nat /\ MaxFaults \in Nat
ASSUME NoUserAssumption == NoUser \notin Users

VARIABLES
  users,    \* rows of the users table
  op,       \* what each creation is: its kind, by whom, for whom
  todo,     \* the adds each running listener still has to make
  rows,     \* rows or mails each job has produced
  faults,   \* how many faults have happened (history)
  stage, tries, deaths

pool == <<stage, tries, deaths>>
vars == <<users, op, todo, rows, faults, stage, tries, deaths>>

Names  == {"TASK_CREATED", "TASK_ASSIGNED", "USER_CREATED"}
Events == Ops \X Names
Jobs   == Events \X Queues

Log(e)          == <<e, "log">>
Notification(e) == <<e, "notification">>

Pool == INSTANCE JobPool WITH Attempts <- [j \in Jobs |-> Attempts[j[2]]]

Kinds == {"task", "assignedTask", "user"}

\* What the services dispatch.
Dispatches(k) ==
  CASE k = "task"         -> {"TASK_CREATED"}
    [] k = "assignedTask" -> {"TASK_CREATED", "TASK_ASSIGNED"}
    [] OTHER              -> {"USER_CREATED"}

\* Mistaken variants (here and below), which the code does not have: they show
\* that a property notices a slip in the operation that follows.
Adds_LogFirst(name) ==
  CASE name = "TASK_CREATED"  -> <<"log">>
    [] name = "TASK_ASSIGNED" -> <<"log", "notification">>
    [] name = "USER_CREATED"  -> <<"email", "log">>

\* What the listeners add, in their order.  Every user has a company (the column is
\* required), so the listener's test for one always succeeds.
Adds(name) ==
  CASE name = "TASK_CREATED"  -> <<"log">>
    [] name = "TASK_ASSIGNED" -> <<"notification", "log">>
    [] name = "USER_CREATED"  -> <<"email", "log">>

Named_LogsAssignee(j) ==
  LET o == op[j[1][1]] IN
  CASE j[1][2] = "TASK_ASSIGNED"                -> o.assignee
    [] j[2] = "log" /\ j[1][2] = "TASK_CREATED" -> o.by
    [] OTHER                                    -> NoUser

\* The user whose row the insert of a job refers to.
Named(j) ==
  LET o == op[j[1][1]] IN
  CASE j[2] = "notification"                    -> o.assignee
    [] j[2] = "log" /\ j[1][2] # "USER_CREATED" -> o.by
    [] OTHER                                    -> NoUser

\* The foreign key of a job's insert holds.
NamedExists(j) == Named(j) \in users \cup {NoUser}

----------------------------------------------------------------------------
Idle == [kind |-> "none", by |-> NoUser, assignee |-> NoUser]

Init ==
  /\ users = Users
  /\ op = [o \in Ops |-> Idle]
  /\ todo = [e \in Events |-> <<>>]
  /\ rows = [j \in Jobs |-> 0]
  /\ faults = 0
  /\ Pool!PoolInit

Fault == faults < MaxFaults /\ faults' = faults + 1

\* The row is written and, in the same continuation, the events are dispatched;
\* each listener starts at once.
Create(o, k, u, a) ==
  /\ op[o] = Idle
  /\ op' = [op EXCEPT ![o] = [kind |-> k, by |-> u, assignee |-> a]]
  /\ todo' = [e \in Events |-> IF e[1] = o /\ e[2] \in Dispatches(k)
                               THEN Adds(e[2]) ELSE todo[e]]
  /\ UNCHANGED <<users, rows, faults, pool>>

\* TaskCreateService.create
CreateTask(o, u, a) ==
  /\ u \in users
  /\ \/ a = NoUser   /\ Create(o, "task", u, a)
     \/ a \in users  /\ Create(o, "assignedTask", u, a)

\* UserCreateService.create
CreateUser(o) == Create(o, "user", NoUser, NoUser)

AddJob_OnlyFirst(e) ==
  /\ todo[e] # <<>>
  /\ Pool!Put(<<e, Head(todo[e])>>)
  /\ todo' = [todo EXCEPT ![e] = <<>>]
  /\ UNCHANGED <<users, op, rows, faults>>

\* The queue has accepted the listener's next job.
AddJob(e) ==
  /\ todo[e] # <<>>
  /\ Pool!Put(<<e, Head(todo[e])>>)
  /\ todo' = [todo EXCEPT ![e] = Tail(@)]
  /\ UNCHANGED <<users, op, rows, faults>>

\* It is refused, or the process dies: the listener ends, nobody tries again.
AddFails(e) ==
  /\ todo[e] # <<>>
  /\ Fault
  /\ todo' = [todo EXCEPT ![e] = <<>>]
  /\ UNCHANGED <<users, op, rows, pool>>

StartJob(j) ==
  /\ Pool!Start(j)
  /\ UNCHANGED <<users, op, todo, rows, faults>>

Handle_TwoInserts(j) ==
  /\ NamedExists(j)
  /\ rows' = [rows EXCEPT ![j] = @ + 2]
  /\ Pool!Finish(j)
  /\ UNCHANGED <<users, op, todo, faults>>

\* The handler's insert, or its mail, is done and the handler returns.
Handle(j) ==
  /\ NamedExists(j)
  /\ rows' = [rows EXCEPT ![j] = @ + 1]
  /\ Pool!Finish(j)
  /\ UNCHANGED <<users, op, todo, faults>>

\* The insert names a user that is gone: the handler throws.
Refused(j) ==
  /\ ~NamedExists(j)
  /\ Pool!Fail(j)
  /\ UNCHANGED <<users, op, todo, rows, faults>>

\* The call of a handler ends in an error, or its worker dies, with or without
\* the call having been applied.
HandlerFails(j) ==
  /\ Fault
  /\ Pool!Fail(j) \/ Pool!Die(j)
  /\ \/ UNCHANGED rows
     \/ NamedExists(j) /\ rows' = [rows EXCEPT ![j] = @ + 1]
  /\ UNCHANGED <<users, op, todo>>

Retry(j) ==
  /\ Pool!Due(j)
  /\ UNCHANGED <<users, op, todo, rows, faults>>

Stored(u) == {j \in Jobs : j[2] = "notification" /\ rows[j] > 0 /\ Named(j) = u}

\* UserDeleteService.delete: the notifications of a user hold the row, logs and
\* tasks let go of it.
DeleteUser(u) ==
  /\ u \in users
  /\ Stored(u) = {}
  /\ users' = users \ {u}
  /\ UNCHANGED <<op, todo, rows, faults, pool>>

Next ==
  \/ \E o \in Ops, u \in Users, a \in Users \cup {NoUser} : CreateTask(o, u, a)
  \/ \E o \in Ops : CreateUser(o)
  \/ \E e \in Events : AddJob(e) \/ AddFails(e)
  \/ \E j \in Jobs :
       StartJob(j) \/ Handle(j) \/ Refused(j) \/ HandlerFails(j) \/ Retry(j)
  \/ \E u \in Users : DeleteUser(u)

Spec == Init /\ [][Next]_vars

\* Node runs every continuation; Bull hands out every ready job, hears of the end
\* of every handler and fires every delay.
Fairness ==
  /\ WF_vars(\E e \in Events : AddJob(e))
  /\ WF_vars(\E j \in Jobs : StartJob(j) \/ Handle(j) \/ Refused(j) \/ Retry(j))

FairSpec == Spec /\ Fairness

----------------------------------------------------------------------------
(* Properties *)

TypeOK ==
  /\ users \subseteq Users
  /\ op \in [Ops -> [kind : Kinds \cup {"none"}, by : Users \cup {NoUser},
                     assignee : Users \cup {NoUser}]]
  /\ \A e \in Events : todo[e] \in Seq(Queues) /\ Len(todo[e]) <= 2
  /\ rows \in [Jobs -> Nat]
  /\ faults \in 0..MaxFaults
  /\ stage \in [Jobs -> Pool!Stages]
  /\ tries \in [Jobs -> Nat] /\ deaths \in [Jobs -> Nat]

\* A job that ran has left its row or mail, and left it twice only where an attempt
\* failed or a worker died in between: never more often than the job was tried.
OncePerRun ==
  \A j \in Jobs :
    /\ rows[j] <= tries[j] + deaths[j] + 1
    /\ rows[j] <= faults + 1
    /\ stage[j] = "done" => rows[j] > 0

\* The audit entry of an assignment is asked for after its notification: there is
\* no log job unless the assignee's notification was accepted by its queue.
NoticeBeforeLog ==
  \A o \in Ops :
    LET e == <<o, "TASK_ASSIGNED">> IN
    stage[Log(e)] # "none" => stage[Notification(e)] # "none"

\* Without faults a mail is never given up, a notification only if the assignee is
\* deleted, and an audit entry only if the user who acted is, before it is written.
LostOnlyWithUser ==
  faults = 0 =>
    \A o \in Ops, n \in Names, q \in Queues :
      stage[<<<<o, n>>, q>>] = "failed" =>
        \/ q = "notification" /\ op[o].assignee \notin users
        \/ q = "log" /\ n # "USER_CREATED" /\ op[o].by \notin users

EventHappened(e) == e[2] \in Dispatches(op[e[1]].kind) /\ op[e[1]] # Idle

\* Without faults every event ends up written: each job its listener owes has its
\* row or mail, unless the user it names is gone.
EventsAreTold ==
  <>[](faults = 0 => \A e \in Events : EventHappened(e) =>
         \A q \in ToSet(Adds(e[2])) :
           rows[<<e, q>>] > 0 \/ ~NamedExists(<<e, q>>))

\* With or without faults the queues run dry: every job that was added is done or
\* given up, whichever users are deleted meanwhile.
JobsSettle == <>[](\A j \in Jobs : stage[j] # "none" => Pool!Settled(j))
=============================================================================
