------------------------------ MODULE Delivery ------------------------------
(***************************************************************************)
(* From a queued notification to the client: the notification processor,   *)
(* the rows it stores, the gateway it pushes them through, and the HTTP    *)
(* endpoints that list the rows and mark them as read.                     *)
(*                                                                         *)
(* Composes a JobPool (the notification queue) and a Gateway.  There is    *)
(* one process, as the gateway's map and rooms require: they are in its    *)
(* memory.  It runs one notification job at a time (Bull's concurrency for *)
(* a @Process without a number), and when it restarts the connections, the *)
(* map and the job that was running go together.                           *)
(*                                                                         *)
(* Users are not deleted here (see EventPipeline), and the first page of a *)
(* list holds every row (see Paging).                                      *)
(***************************************************************************)
EXTENDS Naturals, FiniteSets

CONSTANTS
  Sockets, Users, Teams, Companies, CompanyOf, NoCompany, Undefined,
  Jobs,        \* notification jobs
  Addressee,   \* job.data.userId
  Attempts,    \* of the notification queue
  MaxStalls,   \* Bull's default, 1
  NotYet       \* no list

ASSUME AddresseeAssumption == Addressee \in [Jobs -> Users]
ASSUME CompanyAssumption ==
  /\ CompanyOf \in [Users -> Companies \cup {NoCompany}]
  /\ NoCompany \notin Companies
ASSUME UndefinedAssumption == Undefined \notin Users
ASSUME AttemptsAssumption == Attempts \in Nat \ {0} /\ MaxStalls \in Nat

VARIABLES
  link, check, user, known, sockets, rooms, sent, inbox,  \* the gateway
  stage, tries, deaths,                                   \* the queue
  step,      \* where the handler of each job is
  row,       \* notifications: none, unread or read
  listed,    \* the rows a client got from its list request, NotYet before
  lostEnds   \* runs that returned without the queue hearing of it (history)

hub  == <<link, check, user, known, sockets, rooms, sent, inbox>>
pool == <<stage, tries, deaths>>
vars == <<hub, pool, step, row, listed, lostEnds>>

\* A job stores at most one row per run, and it runs at most this often.
MaxRuns == Attempts + MaxStalls
Notices == Jobs \X (1..MaxRuns)

Hub == INSTANCE Gateway WITH
  Notifications <- Notices,
  Target        <- [n \in Notices |-> Addressee[n[1]]]

Pool == INSTANCE JobPool WITH Attempts <- [j \in Jobs |-> Attempts]

\* The row of the current run.
Notice(j) == <<j, tries[j] + deaths[j] + 1>>

Init ==
  /\ Hub!Init
  /\ Pool!PoolInit
  /\ step = [j \in Jobs |-> "idle"]
  /\ row = [n \in Notices |-> "none"]
  /\ listed = [s \in Sockets |-> NotYet]
  /\ lostEnds = [j \in Jobs |-> 0]

----------------------------------------------------------------------------
(* The queue and the processor *)

Goto(j, s) == step' = [step EXCEPT ![j] = s]

Stores(n) == row' = [row EXCEPT ![n] = "unread"]

\* A listener has added the job; the delay of a retry is over.
AddJob(j) == Pool!Put(j) /\ UNCHANGED <<hub, step, row, listed, lostEnds>>
Retry(j)  == Pool!Due(j) /\ UNCHANGED <<hub, step, row, listed, lostEnds>>

\* The next job, when the one before has returned: its insert is on its way.
StartJob(j) ==
  /\ \A k \in Jobs : step[k] = "idle"
  /\ Pool!Start(j)
  /\ Goto(j, "inserting")
  /\ UNCHANGED <<hub, row, listed, lostEnds>>

\* The insert is committed; its answer is on the way to the handler.
Insert(j) ==
  /\ step[j] = "inserting"
  /\ Stores(Notice(j))
  /\ Goto(j, "pushing")
  /\ UNCHANGED <<hub, pool, listed, lostEnds>>

\* It fails or its answer is lost, applied or not: the handler throws.
InsertFails(j) ==
  /\ step[j] = "inserting"
  /\ Stores(Notice(j)) \/ UNCHANGED row
  /\ Pool!Fail(j)
  /\ Goto(j, "idle")
  /\ UNCHANGED <<hub, listed, lostEnds>>

\* Mistaken variants, here and below, which the code does not have: they show
\* that a property notices a slip in the operation that follows.
Push_BeforeInsert(j) ==
  /\ \/ step[j] = "inserting" /\ Hub!SendToUser(Notice(j)) /\ UNCHANGED step
     \/ step[j] = "pushing" /\ Notice(j) \in sent /\ UNCHANGED hub /\ Goto(j, "returning")
  /\ UNCHANGED <<pool, row, listed, lostEnds>>

\* The answer is there: push, in the same continuation, and return.
Push(j) ==
  /\ step[j] = "pushing"
  /\ Hub!SendToUser(Notice(j))
  /\ Goto(j, "returning")
  /\ UNCHANGED <<pool, row, listed, lostEnds>>

EndJob_Fails(j) ==
  /\ step[j] = "returning"
  /\ Pool!Finish(j) \/ Pool!Fail(j)
  /\ Goto(j, "idle")
  /\ UNCHANGED <<hub, row, listed, lostEnds>>

\* The queue hears that the handler has returned.
EndJob(j) ==
  /\ step[j] = "returning"
  /\ Pool!Finish(j)
  /\ Goto(j, "idle")
  /\ UNCHANGED <<hub, row, listed, lostEnds>>

\* It does not, or the lock has expired meanwhile: the job counts as stalled.
EndIsLost(j) ==
  /\ step[j] = "returning"
  /\ Pool!Die(j)
  /\ Goto(j, "idle")
  /\ lostEnds' = [lostEnds EXCEPT ![j] = @ + 1]
  /\ UNCHANGED <<hub, row, listed>>

\* The process restarts, wherever it is; an insert on its way may still arrive.
Restart ==
  /\ Hub!Restart
  /\ \/ /\ \A j \in Jobs : step[j] = "idle"
        /\ UNCHANGED <<pool, step, row>>
     \/ \E j \in Jobs :
          /\ step[j] # "idle"
          /\ Pool!Die(j)
          /\ Goto(j, "idle")
          /\ \/ step[j] = "inserting" /\ Stores(Notice(j))
             \/ UNCHANGED row
  /\ listed' = [s \in Sockets |-> NotYet]
  /\ UNCHANGED lostEnds

----------------------------------------------------------------------------
(* Clients *)

\* A client that has gone shows nothing any more.
Kept == [s \in Sockets |-> IF link'[s] = "up" THEN listed[s] ELSE NotYet]

Traffic ==
  /\ Hub!Traffic
  /\ listed' = Kept
  /\ UNCHANGED <<pool, step, row, lostEnds>>

RowsOf(u) == {n \in Notices : row[n] # "none" /\ Addressee[n[1]] = u}

\* NotificationListService, asked once the gateway has said 'authenticated'.
List(s) ==
  /\ Hub!Online(s) /\ listed[s] = NotYet
  /\ listed' = [listed EXCEPT ![s] = RowsOf(user[s])]
  /\ UNCHANGED <<hub, pool, step, row, lostEnds>>

\* What a client can show: it has listed, and received what came since it connected.
Shown(s) == IF listed[s] = NotYet THEN {} ELSE listed[s] \cup inbox[s]

\* NotificationMarkAsReadService: of the caller's own, unread rows.
MarkAsRead(s, n) ==
  /\ Hub!Online(s) /\ n \in Shown(s)
  /\ row[n] = "unread" /\ Addressee[n[1]] = user[s]
  /\ row' = [row EXCEPT ![n] = "read"]
  /\ UNCHANGED <<hub, pool, step, listed, lostEnds>>

Next ==
  \/ \E j \in Jobs :
       \/ AddJob(j) \/ Retry(j) \/ StartJob(j)
       \/ Insert(j) \/ InsertFails(j) \/ Push(j) \/ EndJob(j) \/ EndIsLost(j)
  \/ Restart
  \/ Traffic
  \/ \E s \in Sockets : List(s) \/ \E n \in Notices : MarkAsRead(s, n)

Spec == Init /\ [][Next]_vars

----------------------------------------------------------------------------
(* Properties *)

Steps == {"idle", "inserting", "pushing", "returning"}

TypeOK ==
  /\ Hub!TypeOK
  /\ stage \in [Jobs -> Pool!Stages]
  /\ tries \in [Jobs -> Nat] /\ deaths \in [Jobs -> Nat]
  /\ step \in [Jobs -> Steps]
  /\ row \in [Notices -> {"none", "unread", "read"}]
  /\ listed \in [Sockets -> (SUBSET Notices) \cup {NotYet}]
  /\ lostEnds \in [Jobs -> Nat]

\* A closed socket stays registered only if it closed while its token was being
\* checked, and then only under its own user.
GhostsDropped == Hub!GhostsDropped

\* No client is ever pushed a notification of somebody else, whatever it registered
\* or joined, and however often the job runs.
OnlyItsUser == Hub!OnlyItsUser

\* sendToUser reaches every socket of the user that is online then.
ReachesOnline == Hub!ReachesOnline

\* No gap between the two channels: a client that lists after it was authenticated
\* has, while it stays online, every notification that was pushed to its user, early
\* enough for the list or late enough for the socket, and one for every job that is
\* done.  It rests on the insert being committed before the push and on the room
\* being joined before 'authenticated'.
NothingMissed ==
  \A s \in Sockets :
    Hub!Online(s) /\ listed[s] # NotYet =>
      /\ \A n \in sent : Addressee[n[1]] = user[s] => n \in Shown(s)
      /\ \A j \in Jobs : stage[j] = "done" /\ Addressee[j] = user[s] =>
           \E n \in Shown(s) : n[1] = j

\* One client is pushed the same job twice only if the queue did not hear of the end
\* of a run: neither a retry nor a restart repeats a push to it.
ToldOnce ==
  \A s \in Sockets, j \in Jobs :
    Cardinality({n \in inbox[s] : n[1] = j}) <= lostEnds[j] + 1
=============================================================================
