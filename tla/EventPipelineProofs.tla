------------------------ MODULE EventPipelineProofs ------------------------
(***************************************************************************)
(* Theorems about EventPipeline, for any users, creations, attempts,       *)
(* stalls and numbers of faults.                                           *)
(***************************************************************************)
EXTENDS EventPipeline, TLAPS

\* What a listener may still have to add.
Plans == {<<>>, <<"log">>, <<"notification", "log">>, <<"email", "log">>}

Types ==
  /\ users \subseteq Users
  /\ op \in [Ops -> [kind : Kinds \cup {"none"}, by : Users \cup {NoUser},
                     assignee : Users \cup {NoUser}]]
  /\ todo \in [Events -> Plans]
  /\ rows \in [Jobs -> Nat]
  /\ faults \in 0..MaxFaults
  /\ stage \in [Jobs -> Pool!Stages]
  /\ tries \in [Jobs -> Nat] /\ deaths \in [Jobs -> Nat]

\* Listeners and jobs are those of a creation that has happened: what it is, is settled.
Begun ==
  /\ \A e \in Events : todo[e] # <<>> => op[e[1]] # Idle
  /\ \A j \in Jobs : stage[j] # "none" => op[j[1][1]] # Idle

LastRun(j) == IF stage[j] = "done" THEN 1 ELSE 0

\* A row is that of a run that failed or died after its insert, or of the last run.
RowPerRun ==
  \A j \in Jobs :
    /\ rows[j] <= tries[j] + deaths[j] + LastRun(j)
    /\ rows[j] <= faults + LastRun(j)
    /\ stage[j] = "done" => rows[j] > 0

\* A listener that has only the log left to add has had its notification accepted.
InOrder ==
  \A e \in Events : e[2] = "TASK_ASSIGNED" =>
    /\ todo[e] \in {<<>>, <<"log">>, <<"notification", "log">>}
    /\ todo[e] = <<"log">> \/ stage[Log(e)] # "none" => stage[Notification(e)] # "none"

\* Without faults a job fails because of the user it names, who does not come back.
LostWithUser == faults = 0 => \A j \in Jobs : stage[j] = "failed" => ~NamedExists(j)

Inv == Types /\ Begun /\ RowPerRun /\ InOrder /\ LostWithUser

----------------------------------------------------------------------------
(* The lists of adds *)

\* The first add of a plan is for a queue, and what remains is a plan.
LEMMA PlanFacts ==
  /\ \A t \in Plans : t # <<>> => Head(t) \in Queues /\ Tail(t) \in Plans
  /\ Head(<<"log">>) = "log" /\ Tail(<<"log">>) = <<>>
  /\ Head(<<"notification", "log">>) = "notification"
  /\ Tail(<<"notification", "log">>) = <<"log">>
  /\ <<"log">> # <<>> /\ <<"notification", "log">> # <<>>
  /\ <<"notification", "log">> # <<"log">>
  /\ \A n \in Names : Adds(n) \in Plans
  /\ Adds("TASK_ASSIGNED") = <<"notification", "log">>
  BY DEF Plans, Queues, Names, Adds

\* Events and jobs are pairs, told apart by their parts.
LEMMA JobFacts ==
  /\ \A e \in Events, q \in Queues :
       <<e, q>> \in Jobs /\ <<e, q>>[1] = e /\ <<e, q>>[2] = q
  /\ \A j \in Jobs : j[1] \in Events /\ j[2] \in Queues
  /\ \A e \in Events : e[1] \in Ops /\ e[2] \in Names
  /\ \A e \in Events : /\ Log(e) \in Jobs /\ Notification(e) \in Jobs
                       /\ Log(e) # Notification(e)
                       /\ Log(e)[1] = e /\ Notification(e)[1] = e
  /\ \A e, f \in Events : e # f => Log(e) # Log(f) /\ Notification(e) # Notification(f)
  BY DEF Jobs, Events, Queues, Log, Notification

----------------------------------------------------------------------------
(* The steps *)

\* At first nothing has happened.
LEMMA InvInit == Init => Inv
  <1> SUFFICES ASSUME Init PROVE Inv
    OBVIOUS
  <1>1. Types
    BY BoundsAssumption DEF Init, Pool!PoolInit, Types, Idle, Plans, Pool!Stages
  <1>2. Begun /\ InOrder /\ LostWithUser
    BY JobFacts, PlanFacts DEF Init, Pool!PoolInit, Begun, InOrder, LostWithUser
  <1>3. RowPerRun
    BY DEF Init, Pool!PoolInit, RowPerRun, LastRun
  <1> QED
    BY <1>1, <1>2, <1>3 DEF Inv

\* A creation begins its listeners, each with all of its adds before it.
LEMMA CreateInv ==
  ASSUME Inv, NEW o \in Ops, NEW k \in Kinds, NEW u \in Users \cup {NoUser},
         NEW a \in Users \cup {NoUser}, Create(o, k, u, a)
  PROVE  Inv'
  <1> DEFINE new == [kind |-> k, by |-> u, assignee |-> a]
  <1>1. /\ UNCHANGED <<users, rows, faults, stage, tries, deaths>>
        /\ op[o] = Idle /\ op' = [op EXCEPT ![o] = new]
        /\ todo' = [e \in Events |-> IF e[1] = o /\ e[2] \in Dispatches(k)
                                     THEN Adds(e[2]) ELSE todo[e]]
    BY DEF Create, pool
  <1>2. /\ new \in [kind : Kinds \cup {"none"}, by : Users \cup {NoUser},
                    assignee : Users \cup {NoUser}]
        /\ new # Idle
    <2>1. k # "none"
      BY DEF Kinds
    <2>2. new.kind # Idle.kind
      BY <2>1 DEF Idle
    <2> QED
      BY <2>2
  <1> HIDE DEF new
  <1>3. \A p \in Ops : op'[p] = IF p = o THEN new ELSE op[p]
    BY <1>1 DEF Inv, Types
  <1>4. Types'
    BY <1>1, <1>2, JobFacts, PlanFacts DEF Inv, Types
  <1>5. Begun'
    BY <1>1, <1>2, <1>3, JobFacts DEF Inv, Begun
  <1>6. RowPerRun'
    BY <1>1 DEF Inv, RowPerRun, LastRun
  <1>7. InOrder'
    BY <1>1, PlanFacts DEF Inv, InOrder, Log, Notification
  <1>8. LostWithUser'
    <2>1. \A j \in Jobs : stage[j] = "failed" => op'[j[1][1]] = op[j[1][1]]
      BY <1>1, <1>3, JobFacts DEF Inv, Begun
    <2> QED
      BY <1>1, <2>1 DEF Inv, LostWithUser, NamedExists, Named
  <1> QED
    BY <1>4, <1>5, <1>6, <1>7, <1>8 DEF Inv

\* A listener adds the next job of its plan: the notification before the log.
LEMMA AddJobInv ==
  ASSUME Inv, NEW e \in Events, AddJob(e)
  PROVE  Inv'
  <1> DEFINE j == <<e, Head(todo[e])>>
  <1>1. /\ UNCHANGED <<users, op, rows, faults, tries, deaths>>
        /\ todo[e] # <<>> /\ todo' = [todo EXCEPT ![e] = Tail(todo[e])]
        /\ stage[j] = "none" /\ stage' = [stage EXCEPT ![j] = "ready"]
        /\ todo[e] \in Plans
    BY DEF AddJob, Pool!Put, Pool!Moves, Inv, Types
  <1>2. /\ j \in Jobs /\ j[1] = e
        /\ Tail(todo[e]) \in Plans
    BY <1>1, JobFacts, PlanFacts
  <1>3. /\ \A i \in Jobs : stage'[i] = IF i = j THEN "ready" ELSE stage[i]
        /\ \A f \in Events : todo'[f] = IF f = e THEN Tail(todo[e]) ELSE todo[f]
    BY <1>1 DEF Inv, Types
  <1>4. Types'
    BY <1>1, <1>2 DEF Inv, Types, Pool!Stages
  <1>5. Begun'
    BY <1>1, <1>2, <1>3 DEF Inv, Begun
  <1>6. RowPerRun'
    BY <1>1, <1>3 DEF Inv, RowPerRun, LastRun
  <1>7. InOrder'
    <2> SUFFICES ASSUME NEW f \in Events, f[2] = "TASK_ASSIGNED"
                 PROVE  /\ todo'[f] \in {<<>>, <<"log">>, <<"notification", "log">>}
                        /\ todo'[f] = <<"log">> \/ stage'[Log(f)] # "none" =>
                             stage'[Notification(f)] # "none"
      BY DEF InOrder
    <2>1. CASE f # e
      <3>1. Log(f) # j /\ Notification(f) # j
        BY <1>2, <2>1, JobFacts
      <3> QED
        BY <1>3, <2>1, <3>1, JobFacts DEF Inv, InOrder
    <2>2. CASE f = e /\ todo[e] = <<"log">>
      <3>1. j = Log(e) /\ todo'[e] = <<>>
        BY <1>3, <2>2, PlanFacts DEF Log
      <3>2. stage[Notification(e)] # "none"
        BY <2>2 DEF Inv, InOrder
      <3> QED
        BY <1>3, <2>2, <3>1, <3>2, JobFacts, PlanFacts
    <2>3. CASE f = e /\ todo[e] = <<"notification", "log">>
      <3>1. j = Notification(e) /\ todo'[e] = <<"log">>
        BY <1>3, <2>3, PlanFacts DEF Notification
      <3> QED
        BY <1>3, <2>3, <3>1, JobFacts
    <2> QED
      BY <1>1, <2>1, <2>2, <2>3 DEF Inv, InOrder
  <1>8. LostWithUser'
    BY <1>1, <1>3 DEF Inv, LostWithUser, NamedExists, Named
  <1> QED
    BY <1>4, <1>5, <1>6, <1>7, <1>8 DEF Inv

\* A refused add ends the listener: nothing later in its plan is ever added.
LEMMA AddFailsInv ==
  ASSUME Inv, NEW e \in Events, AddFails(e)
  PROVE  Inv'
  <1>1. /\ UNCHANGED <<users, op, rows, stage, tries, deaths>>
        /\ todo' = [todo EXCEPT ![e] = <<>>]
        /\ faults' = faults + 1 /\ faults < MaxFaults
    BY DEF AddFails, Fault, pool
  <1>2. \A f \in Events : todo'[f] = IF f = e THEN <<>> ELSE todo[f]
    BY <1>1 DEF Inv, Types
  <1>3. faults \in Nat /\ faults' # 0 /\ faults' \in 0..MaxFaults
    BY <1>1, BoundsAssumption DEF Inv, Types
  <1>4. Types'
    BY <1>1, <1>3 DEF Inv, Types, Plans
  <1>5. Begun' /\ InOrder'
    BY <1>1, <1>2, PlanFacts DEF Inv, Begun, InOrder
  <1>6. RowPerRun'
    <2>1. \A j \in Jobs : rows[j] \in Nat /\ LastRun(j) \in Nat
      BY DEF Inv, Types, LastRun
    <2> QED
      BY <1>1, <1>3, <2>1 DEF Inv, RowPerRun, LastRun
  <1>7. LostWithUser'
    BY <1>3 DEF LostWithUser
  <1> QED
    BY <1>4, <1>5, <1>6, <1>7 DEF Inv

\* A job that was added moves on; neither its event nor the lists of adds change.
LEMMA MoveKeeps ==
  ASSUME Inv, NEW j \in Jobs, NEW to \in Pool!Stages \ {"none"},
         stage[j] # "none", stage' = [stage EXCEPT ![j] = to],
         UNCHANGED <<users, op, todo>>
  PROVE  /\ \A i \in Jobs : stage'[i] = IF i = j THEN to ELSE stage[i]
         /\ stage' \in [Jobs -> Pool!Stages]
         /\ Begun' /\ InOrder'
  <1>1. /\ \A i \in Jobs : stage'[i] = IF i = j THEN to ELSE stage[i]
        /\ stage' \in [Jobs -> Pool!Stages]
    BY DEF Inv, Types
  <1>2. \A i \in Jobs : stage'[i] # "none" <=> stage[i] # "none"
    BY <1>1
  <1> QED
    BY <1>1, <1>2, JobFacts DEF Inv, Begun, InOrder

\* Starting and retrying a job writes nothing.
LEMMA StartRetryInv ==
  ASSUME Inv, NEW j \in Jobs, StartJob(j) \/ Retry(j)
  PROVE  Inv'
  <1>1. PICK to \in {"running", "ready"} :
          /\ stage' = [stage EXCEPT ![j] = to] /\ stage[j] \in {"ready", "delayed"}
          /\ UNCHANGED <<users, op, todo, rows, faults, tries, deaths>>
    BY DEF StartJob, Retry, Pool!Start, Pool!Due, Pool!Moves
  <1>2. /\ \A i \in Jobs : stage'[i] = IF i = j THEN to ELSE stage[i]
        /\ stage' \in [Jobs -> Pool!Stages]
        /\ Begun' /\ InOrder'
    BY <1>1, MoveKeeps DEF Pool!Stages
  <1>3. Types'
    BY <1>1, <1>2 DEF Inv, Types
  <1>4. RowPerRun'
    BY <1>1, <1>2 DEF Inv, RowPerRun, LastRun
  <1>5. LostWithUser'
    BY <1>1, <1>2 DEF Inv, LostWithUser, NamedExists, Named
  <1> QED
    BY <1>2, <1>3, <1>4, <1>5 DEF Inv

\* A handler's insert and return: one row, for the run that is now the last.
LEMMA HandleInv ==
  ASSUME Inv, NEW j \in Jobs, Handle(j)
  PROVE  Inv'
  <1>1. /\ stage' = [stage EXCEPT ![j] = "done"] /\ stage[j] = "running"
        /\ rows' = [rows EXCEPT ![j] = @ + 1]
        /\ UNCHANGED <<users, op, todo, faults, tries, deaths>>
    BY DEF Handle, Pool!Finish, Pool!Moves
  <1>2. /\ \A i \in Jobs : stage'[i] = IF i = j THEN "done" ELSE stage[i]
        /\ stage' \in [Jobs -> Pool!Stages]
        /\ Begun' /\ InOrder'
    BY <1>1, MoveKeeps DEF Pool!Stages
  <1>3. Types'
    BY <1>1, <1>2 DEF Inv, Types
  <1>4. RowPerRun'
    <2>1. \A i \in Jobs : rows[i] \in Nat /\ tries[i] \in Nat /\ deaths[i] \in Nat
      BY DEF Inv, Types
    <2>2. faults \in Nat /\ LastRun(j) = 0
      BY <1>1, BoundsAssumption DEF Inv, Types, LastRun
    <2>3. \A i \in Jobs : rows'[i] = IF i = j THEN rows[i] + 1 ELSE rows[i]
      BY <1>1 DEF Inv, Types
    <2> QED
      BY <1>1, <1>2, <2>1, <2>2, <2>3 DEF Inv, RowPerRun, LastRun
  <1>5. LostWithUser'
    BY <1>1, <1>2 DEF Inv, LostWithUser, NamedExists, Named
  <1> QED
    BY <1>2, <1>3, <1>4, <1>5 DEF Inv

\* An attempt that fails and a worker that dies are counted, and end short of done.
LEMMA FailOrDie ==
  ASSUME Inv, NEW j \in Jobs, Pool!Fail(j) \/ Pool!Die(j),
         UNCHANGED <<users, op, todo>>
  PROVE  /\ stage[j] = "running" /\ stage'[j] \in {"delayed", "ready", "failed"}
         /\ \A i \in Jobs : i # j => stage'[i] = stage[i]
         /\ stage' \in [Jobs -> Pool!Stages]
         /\ tries' \in [Jobs -> Nat] /\ deaths' \in [Jobs -> Nat]
         /\ \A i \in Jobs : tries'[i] + deaths'[i] =
                              tries[i] + deaths[i] + (IF i = j THEN 1 ELSE 0)
         /\ Begun' /\ InOrder'
  <1>1. PICK to \in {"delayed", "ready", "failed"} :
          stage' = [stage EXCEPT ![j] = to] /\ stage[j] = "running"
    BY DEF Pool!Fail, Pool!Die, Pool!Moves
  <1>2. /\ \A i \in Jobs : stage'[i] = IF i = j THEN to ELSE stage[i]
        /\ stage' \in [Jobs -> Pool!Stages]
        /\ Begun' /\ InOrder'
    BY <1>1, MoveKeeps DEF Pool!Stages
  <1>3. \/ tries' = [tries EXCEPT ![j] = @ + 1] /\ deaths' = deaths
        \/ deaths' = [deaths EXCEPT ![j] = @ + 1] /\ tries' = tries
    BY DEF Pool!Fail, Pool!Die
  <1>4. /\ tries' \in [Jobs -> Nat] /\ deaths' \in [Jobs -> Nat]
        /\ \A i \in Jobs : tries'[i] + deaths'[i] =
                             tries[i] + deaths[i] + (IF i = j THEN 1 ELSE 0)
    BY <1>3 DEF Inv, Types
  <1> QED
    BY <1>1, <1>2, <1>4

\* A refused insert: the user the job names is gone, and stays gone.
LEMMA RefusedInv ==
  ASSUME Inv, NEW j \in Jobs, Refused(j)
  PROVE  Inv'
  <1>1. /\ ~NamedExists(j) /\ Pool!Fail(j)
        /\ UNCHANGED <<users, op, todo, rows, faults>>
    BY DEF Refused
  <1>2. /\ stage[j] = "running" /\ stage'[j] \in {"delayed", "ready", "failed"}
        /\ \A i \in Jobs : i # j => stage'[i] = stage[i]
        /\ stage' \in [Jobs -> Pool!Stages]
        /\ tries' \in [Jobs -> Nat] /\ deaths' \in [Jobs -> Nat]
        /\ \A i \in Jobs : tries'[i] + deaths'[i] =
                             tries[i] + deaths[i] + (IF i = j THEN 1 ELSE 0)
        /\ Begun' /\ InOrder'
    BY <1>1, FailOrDie
  <1>3. Types'
    BY <1>1, <1>2 DEF Inv, Types
  <1>4. RowPerRun'
    <2>1. \A i \in Jobs : rows[i] \in Nat /\ tries[i] \in Nat /\ deaths[i] \in Nat
      BY DEF Inv, Types
    <2> QED
      BY <1>1, <1>2, <2>1 DEF Inv, RowPerRun, LastRun
  <1>5. LostWithUser'
    BY <1>1, <1>2 DEF Inv, LostWithUser, NamedExists, Named
  <1> QED
    BY <1>2, <1>3, <1>4, <1>5 DEF Inv

\* A failure or a death spends an attempt or a stall and a fault for the row it may
\* leave.
LEMMA HandlerFailsInv ==
  ASSUME Inv, NEW j \in Jobs, HandlerFails(j)
  PROVE  Inv'
  <1>1. /\ faults < MaxFaults /\ faults' = faults + 1
        /\ Pool!Fail(j) \/ Pool!Die(j)
        /\ rows' = rows \/ rows' = [rows EXCEPT ![j] = @ + 1]
        /\ UNCHANGED <<users, op, todo>>
    BY DEF HandlerFails, Fault
  <1>2. /\ stage[j] = "running" /\ stage'[j] \in {"delayed", "ready", "failed"}
        /\ \A i \in Jobs : i # j => stage'[i] = stage[i]
        /\ stage' \in [Jobs -> Pool!Stages]
        /\ tries' \in [Jobs -> Nat] /\ deaths' \in [Jobs -> Nat]
        /\ \A i \in Jobs : tries'[i] + deaths'[i] =
                             tries[i] + deaths[i] + (IF i = j THEN 1 ELSE 0)
        /\ Begun' /\ InOrder'
    BY <1>1, FailOrDie
  <1>3. /\ rows' \in [Jobs -> Nat]
        /\ \A i \in Jobs : /\ i # j => rows'[i] = rows[i]
                           /\ rows'[j] <= rows[j] + 1
    BY <1>1 DEF Inv, Types
  <1>4. faults \in Nat /\ faults' # 0 /\ faults' \in 0..MaxFaults
    BY <1>1, BoundsAssumption DEF Inv, Types
  <1>5. Types'
    BY <1>1, <1>2, <1>3, <1>4 DEF Inv, Types
  <1>6. RowPerRun'
    <2> SUFFICES ASSUME NEW i \in Jobs
                 PROVE  /\ rows'[i] <= tries'[i] + deaths'[i] + LastRun(i)'
                        /\ rows'[i] <= faults' + LastRun(i)'
                        /\ stage'[i] = "done" => rows'[i] > 0
      BY DEF RowPerRun
    <2>1. /\ rows[i] \in Nat /\ tries[i] \in Nat /\ deaths[i] \in Nat /\ rows'[i] \in Nat
          /\ tries'[i] \in Nat /\ deaths'[i] \in Nat
      BY <1>2, <1>3 DEF Inv, Types
    <2>2. /\ rows[i] <= tries[i] + deaths[i] + LastRun(i)
          /\ rows[i] <= faults + LastRun(i)
          /\ stage[i] = "done" => rows[i] > 0
      BY DEF Inv, RowPerRun
    <2>3. LastRun(i) = LastRun(i)' /\ LastRun(i) \in Nat
      BY <1>2 DEF LastRun
    <2> QED
      BY <1>1, <1>2, <1>3, <1>4, <2>1, <2>2, <2>3
  <1>7. LostWithUser'
    BY <1>4 DEF LostWithUser
  <1> QED
    BY <1>2, <1>5, <1>6, <1>7 DEF Inv

\* Deleting a user makes more failures excusable, never fewer.
LEMMA DeleteUserInv ==
  ASSUME Inv, NEW u \in Users, DeleteUser(u)
  PROVE  Inv'
  <1>1. /\ users' = users \ {u}
        /\ UNCHANGED <<op, todo, rows, faults, stage, tries, deaths>>
    BY DEF DeleteUser, pool
  <1> QED
    BY <1>1 DEF Inv, Types, Begun, RowPerRun, LastRun, InOrder, LostWithUser, NamedExists, Named

\* Every step preserves Inv.
LEMMA InvNext ==
  ASSUME Inv, [Next]_vars
  PROVE  Inv'
  <1>1. ASSUME NEW o \in Ops, NEW u \in Users, NEW a \in Users \cup {NoUser},
               CreateTask(o, u, a)
        PROVE  Inv'
    <2>1. "task" \in Kinds /\ "assignedTask" \in Kinds
      BY DEF Kinds
    <2> QED
      BY <1>1, <2>1, CreateInv DEF CreateTask
  <1>2. ASSUME NEW o \in Ops, CreateUser(o)
        PROVE  Inv'
    <2>1. "user" \in Kinds
      BY DEF Kinds
    <2> QED
      BY <1>2, <2>1, CreateInv DEF CreateUser
  <1>3. ASSUME NEW e \in Events, AddJob(e) \/ AddFails(e)
        PROVE  Inv'
    BY <1>3, AddJobInv, AddFailsInv
  <1>4. ASSUME NEW j \in Jobs,
               StartJob(j) \/ Handle(j) \/ Refused(j) \/ HandlerFails(j) \/ Retry(j)
        PROVE  Inv'
    BY <1>4, StartRetryInv, HandleInv, RefusedInv, HandlerFailsInv
  <1>5. ASSUME NEW u \in Users, DeleteUser(u)
        PROVE  Inv'
    BY <1>5, DeleteUserInv
  <1>6. CASE UNCHANGED vars
    BY <1>6
    DEF vars, Inv, Types, Begun, RowPerRun, LastRun, InOrder, LostWithUser, NamedExists, Named
  <1> QED
    BY <1>1, <1>2, <1>3, <1>4, <1>5, <1>6 DEF Next

\* Inv holds of every reachable state, whatever is fair.
THEOREM InvHolds == Spec => []Inv
  BY InvInit, InvNext, PTL DEF Spec

----------------------------------------------------------------------------
(* What is written, in which order, and what is lost *)

\* The variables have their types, and a listener has two adds left at most.
THEOREM TypeCorrect == Spec => []TypeOK
  <1>1. ASSUME Inv
        PROVE  TypeOK
    <2>1. ASSUME NEW t \in Plans
          PROVE  t \in Seq(Queues) /\ Len(t) <= 2
      <3>1. "log" \in Queues /\ "email" \in Queues /\ "notification" \in Queues
        BY DEF Queues
      <3>2. CASE t = <<>>
        BY <3>2
      <3>3. CASE t = <<"log">>
        BY <3>1, <3>3
      <3>4. CASE t = <<"notification", "log">>
        BY <3>1, <3>4
      <3>5. CASE t = <<"email", "log">>
        BY <3>1, <3>5
      <3> QED
        BY <3>2, <3>3, <3>4, <3>5 DEF Plans
    <2> QED
      BY <1>1, <2>1 DEF Inv, Types, TypeOK
  <1> QED
    BY <1>1, InvHolds, PTL

\* A log, a notification or a mail is written again only where an attempt failed or a
\* worker died in between, and a job that is done has been written.
THEOREM OncePerRunHolds == Spec => []OncePerRun
  <1>1. ASSUME Inv
        PROVE  OncePerRun
    <2> SUFFICES ASSUME NEW j \in Jobs
                 PROVE  /\ rows[j] <= tries[j] + deaths[j] + 1
                        /\ rows[j] <= faults + 1
                        /\ stage[j] = "done" => rows[j] > 0
      BY DEF OncePerRun
    <2>1. /\ rows[j] \in Nat /\ tries[j] \in Nat /\ deaths[j] \in Nat /\ faults \in Nat
          /\ LastRun(j) \in {0, 1}
      BY <1>1, BoundsAssumption DEF Inv, Types, LastRun
    <2> QED
      BY <1>1, <2>1 DEF Inv, RowPerRun
  <1> QED
    BY <1>1, InvHolds, PTL

\* The audit entry of an assignment is never asked for unless its notification was,
\* wherever the listener stops.
THEOREM NoticeBeforeLogHolds == Spec => []NoticeBeforeLog
  <1>1. ASSUME Inv
        PROVE  NoticeBeforeLog
    <2>1. \A o \in Ops : /\ <<o, "TASK_ASSIGNED">> \in Events
                         /\ <<o, "TASK_ASSIGNED">>[2] = "TASK_ASSIGNED"
      BY DEF Events, Names
    <2> QED
      BY <1>1, <2>1 DEF Inv, InOrder, NoticeBeforeLog
  <1> QED
    BY <1>1, InvHolds, PTL

\* Without faults nothing is given up but what names a deleted user: no mail, a
\* notification only with its assignee, an audit entry only with who acted.
THEOREM LostOnlyWithUserHolds == Spec => []LostOnlyWithUser
  <1>1. ASSUME Inv
        PROVE  LostOnlyWithUser
    <2> SUFFICES ASSUME faults = 0, NEW o \in Ops, NEW n \in Names, NEW q \in Queues,
                        stage[<<<<o, n>>, q>>] = "failed"
                 PROVE  \/ q = "notification" /\ op[o].assignee \notin users
                        \/ q = "log" /\ n # "USER_CREATED" /\ op[o].by \notin users
      BY DEF LostOnlyWithUser
    <2>1. <<<<o, n>>, q>> \in Jobs
      BY DEF Jobs, Events
    <2>2. ~NamedExists(<<<<o, n>>, q>>)
      BY <1>1, <2>1 DEF Inv, LostWithUser
    <2> QED
      BY <2>2 DEF NamedExists, Named
  <1> QED
    BY <1>1, InvHolds, PTL

----------------------------------------------------------------------------
(* That what happened is told *)

\* Without faults a job that an event asks for is in its queue, or its listener has
\* still to add it.
AllAsked ==
  faults = 0 => \A e \in Events : EventHappened(e) =>
    \A q \in ToSet(Adds(e[2])) : stage[<<e, q>>] # "none" \/ q \in ToSet(todo[e])

\* No listener is at work.
ListenersDone == \A e \in Events : todo[e] = <<>>

\* Every job that was added is done or given up.
AllSettled == \A j \in Jobs : stage[j] # "none" => Pool!Settled(j)

\* Every job an event asks for has left its row or mail, or names a user who is gone.
Told ==
  \A e \in Events : EventHappened(e) =>
    \A q \in ToSet(Adds(e[2])) : rows[<<e, q>>] > 0 \/ ~NamedExists(<<e, q>>)

\* The queues of a plan are that of its first add and those of what remains.
LEMMA PlanQueues ==
  /\ \A t \in Plans : t # <<>> => ToSet(t) = {Head(t)} \cup ToSet(Tail(t))
  /\ ToSet(<<>>) = {}
  /\ \A n \in Names : ToSet(Adds(n)) \subseteq Queues
  <1>1. ToSet(<<>>) = {} /\ ToSet(<<"log">>) = {"log"}
    BY DEF ToSet
  <1>2. /\ ToSet(<<"notification", "log">>) = {"notification", "log"}
        /\ ToSet(<<"email", "log">>) = {"email", "log"}
    <2>1. ASSUME NEW q
          PROVE  ToSet(<<q, "log">>) = {q, "log"}
      <3>1. DOMAIN <<q, "log">> = {1, 2}
        OBVIOUS
      <3>2. <<q, "log">>[1] = q /\ <<q, "log">>[2] = "log"
        OBVIOUS
      <3> QED
        BY <3>1, <3>2 DEF ToSet
    <2> QED
      BY <2>1
  <1>3. /\ Head(<<"log">>) = "log" /\ Tail(<<"log">>) = <<>>
        /\ Head(<<"notification", "log">>) = "notification"
        /\ Tail(<<"notification", "log">>) = <<"log">>
        /\ Head(<<"email", "log">>) = "email" /\ Tail(<<"email", "log">>) = <<"log">>
    OBVIOUS
  <1> QED
    BY <1>1, <1>2, <1>3 DEF Plans, Names, Adds, Queues

\* A creation's listeners begin with every job their events ask for.
LEMMA CreateAsks ==
  ASSUME Inv, AllAsked, NEW o \in Ops, NEW k \in Kinds, NEW u \in Users \cup {NoUser},
         NEW a \in Users \cup {NoUser}, Create(o, k, u, a)
  PROVE  AllAsked'
  <1> SUFFICES ASSUME faults' = 0, NEW e \in Events, EventHappened(e)',
                      NEW q \in ToSet(Adds(e[2]))
               PROVE  stage'[<<e, q>>] # "none" \/ q \in ToSet(todo'[e])
    BY DEF AllAsked
  <1>1. /\ faults' = faults /\ stage' = stage
        /\ op' = [op EXCEPT ![o] = [kind |-> k, by |-> u, assignee |-> a]]
        /\ todo' = [f \in Events |-> IF f[1] = o /\ f[2] \in Dispatches(k)
                                     THEN Adds(f[2]) ELSE todo[f]]
    BY DEF Create, pool
  <1>2. CASE e[1] = o
    <2>1. op'[e[1]].kind = k
      BY <1>1, <1>2 DEF Inv, Types
    <2> QED
      BY <1>1, <1>2, <2>1 DEF EventHappened
  <1>3. CASE e[1] # o
    <2>1. op'[e[1]] = op[e[1]] /\ todo'[e] = todo[e]
      BY <1>1, <1>3, JobFacts DEF Inv, Types
    <2>2. EventHappened(e)
      BY <2>1 DEF EventHappened
    <2> QED
      BY <1>1, <2>1, <2>2 DEF AllAsked
  <1> QED
    BY <1>2, <1>3

\* A listener that adds a job owes the others it has not added.
LEMMA AddJobAsks ==
  ASSUME Inv, AllAsked, NEW e \in Events, AddJob(e)
  PROVE  AllAsked'
  <1> SUFFICES ASSUME faults' = 0, NEW f \in Events, EventHappened(f)',
                      NEW q \in ToSet(Adds(f[2]))
               PROVE  stage'[<<f, q>>] # "none" \/ q \in ToSet(todo'[f])
    BY DEF AllAsked
  <1>1. /\ UNCHANGED <<op, faults>>
        /\ todo[e] # <<>> /\ todo[e] \in Plans
        /\ todo' = [todo EXCEPT ![e] = Tail(todo[e])]
        /\ stage' = [stage EXCEPT ![<<e, Head(todo[e])>>] = "ready"]
    BY DEF AddJob, Pool!Put, Pool!Moves, Inv, Types
  <1>2. stage[<<f, q>>] # "none" \/ q \in ToSet(todo[f])
    BY <1>1 DEF AllAsked, EventHappened
  <1>3. <<f, q>> \in Jobs
    BY JobFacts, PlanQueues
  <1>4. stage[<<f, q>>] # "none" => stage'[<<f, q>>] # "none"
    BY <1>1, <1>3 DEF Inv, Types
  <1>5. ASSUME q \in ToSet(todo[f]), f = e
        PROVE  stage'[<<f, q>>] # "none" \/ q \in ToSet(todo'[f])
    <2>1. q = Head(todo[e]) \/ q \in ToSet(Tail(todo[e]))
      BY <1>1, <1>5, PlanQueues
    <2>2. todo'[e] = Tail(todo[e])
      BY <1>1 DEF Inv, Types
    <2>3. q = Head(todo[e]) => stage'[<<f, q>>] = "ready"
      BY <1>1, <1>3, <1>5 DEF Inv, Types
    <2> QED
      BY <1>5, <2>1, <2>2, <2>3
  <1>6. f # e => todo'[f] = todo[f]
    BY <1>1 DEF Inv, Types
  <1> QED
    BY <1>2, <1>4, <1>5, <1>6

\* No step takes back what was asked: jobs only move on, and who gives up listening
\* does so by a fault.
LEMMA AllAskedNext ==
  ASSUME Inv, AllAsked, [Next]_vars
  PROVE  AllAsked'
  <1>1. ASSUME NEW o \in Ops, NEW u \in Users, NEW a \in Users \cup {NoUser},
               CreateTask(o, u, a)
        PROVE  AllAsked'
    <2>1. "task" \in Kinds /\ "assignedTask" \in Kinds
      BY DEF Kinds
    <2> QED
      BY <1>1, <2>1, CreateAsks DEF CreateTask
  <1>2. ASSUME NEW o \in Ops, CreateUser(o)
        PROVE  AllAsked'
    <2>1. "user" \in Kinds
      BY DEF Kinds
    <2> QED
      BY <1>2, <2>1, CreateAsks DEF CreateUser
  <1>3. ASSUME NEW e \in Events, AddFails(e)
        PROVE  AllAsked'
    BY <1>3, BoundsAssumption DEF AddFails, Fault, Inv, Types, AllAsked
  <1>4. ASSUME NEW j \in Jobs,
               StartJob(j) \/ Handle(j) \/ Refused(j) \/ HandlerFails(j) \/ Retry(j)
        PROVE  AllAsked'
    <2>1. PICK to \in Pool!Stages \ {"none"} :
            stage' = [stage EXCEPT ![j] = to]
      BY <1>4 DEF StartJob, Handle, Refused, HandlerFails, Retry, Pool!Start, Pool!Finish,
                  Pool!Fail, Pool!Die, Pool!Due, Pool!Moves, Pool!Stages
    <2>2. /\ UNCHANGED <<op, todo>>
          /\ faults' = faults \/ faults' = faults + 1
      BY <1>4 DEF StartJob, Handle, Refused, HandlerFails, Retry, Fault
    <2>3. \A i \in Jobs : stage[i] # "none" => stage'[i] # "none"
      BY <2>1 DEF Inv, Types
    <2>4. faults' = 0 => faults = 0
      BY <2>2, BoundsAssumption DEF Inv, Types
    <2>5. \A e \in Events : \A q \in ToSet(Adds(e[2])) : <<e, q>> \in Jobs
      BY JobFacts, PlanQueues
    <2> QED
      BY <2>2, <2>3, <2>4, <2>5 DEF AllAsked, EventHappened
  <1>5. ASSUME NEW u \in Users, DeleteUser(u)
        PROVE  AllAsked'
    BY <1>5 DEF DeleteUser, pool, AllAsked, EventHappened
  <1>6. CASE UNCHANGED vars
    BY <1>6 DEF vars, AllAsked, EventHappened
  <1> QED
    BY <1>1, <1>2, <1>3, <1>4, <1>5, <1>6, AddJobAsks DEF Next

\* Without faults every job an event asks for was added or will be: it is nowhere lost
\* between the service, the listener and the queue.
THEOREM AllAskedHolds == Spec => []AllAsked
  <1>1. Init => AllAsked
    BY JobFacts DEF Init, AllAsked, EventHappened
  <1> QED
    BY <1>1, AllAskedNext, InvHolds, PTL DEF Spec

\* Once no listener is at work and the queues have run dry, all that happened without
\* a fault is written, but for what names a deleted user.
THEOREM ToldWhenQuiet ==
  Spec => [](faults = 0 /\ ListenersDone /\ AllSettled => Told)
  <1>1. ASSUME Inv, AllAsked, faults = 0, ListenersDone, AllSettled
        PROVE  Told
    <2> SUFFICES ASSUME NEW e \in Events, EventHappened(e), NEW q \in ToSet(Adds(e[2]))
                 PROVE  rows[<<e, q>>] > 0 \/ ~NamedExists(<<e, q>>)
      BY DEF Told
    <2>1. <<e, q>> \in Jobs
      BY JobFacts, PlanQueues
    <2>2. stage[<<e, q>>] # "none"
      BY <1>1, PlanQueues DEF AllAsked, ListenersDone
    <2>3. stage[<<e, q>>] \in {"failed", "done"}
      BY <1>1, <2>1, <2>2 DEF AllSettled, Pool!Settled
    <2> QED
      BY <1>1, <2>1, <2>3 DEF Inv, RowPerRun, LostWithUser
  <1> QED
    BY <1>1, InvHolds, AllAskedHolds, PTL

\* Of the two promises about the end, one rests on the other: where the listeners come
\* to an end and the jobs settle, events are told. No fairness is needed for that.
THEOREM ToldIfSettled ==
  Spec /\ <>[]ListenersDone /\ JobsSettle => EventsAreTold
  <1>1. faults = 0 /\ ListenersDone /\ AllSettled => Told
        <=> (ListenersDone /\ AllSettled => (faults = 0 => Told))
    OBVIOUS
  <1>2. EventsAreTold <=> <>[](faults = 0 => Told)
    BY DEF EventsAreTold, Told
  <1>3. JobsSettle <=> <>[]AllSettled
    BY DEF JobsSettle, AllSettled
  <1> QED
    BY <1>1, <1>2, <1>3, ToldWhenQuiet, PTL
=============================================================================
