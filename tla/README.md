# Verification of team-ops-api

TLA+ models of the NestJS service in `src/`, the TLC configurations that check
them, and proofs checked by TLAPS. `PROJECT.json` lists runs, mutants, the map
from definitions to source lines, findings, hazards and theorems.

## 1. The system

One Node process (or several, behind one database and one Redis) serves HTTP
controllers. A controller calls a service; a service reads and writes Postgres
through Prisma, one statement at a time and, with one exception, without
transactions; some services emit an event. A listener turns the event into a job
of a Bull queue; a processor of that queue writes the database, the R2 bucket, the
mail server or a WebSocket. Nothing waits for the listener or for the job: the
HTTP answer is sent as soon as the service returns.

    controller -> service -> Postgres
                     | emit
                  listener -> Bull queue -> processor -> Postgres | R2 | SMTP | WebSocket

| Component | State | Operations | What is hard |
|---|---|---|---|
| Task files (`tasks/task-files`) | `files` rows | upload, delete, list | the row is written now, the work is done later by a job that trusts what the request had read |
| File listener and processor | `file` queue, bucket objects | upload job, delete job | attempts, back-off, crashes, redelivery; the bucket and the database cannot be updated together |
| Queues (`queue/`) | five Bull queues in Redis | add | attempts 3/3/2/5/3, stalled jobs |
| Tasks (`tasks/`) | `tasks` rows | create, update, delete | check in one statement, write in another |
| Sessions (`auth/`) | `refresh_tokens` rows | signin, refresh, logout | rotation without a transaction, reuse detection, tokens that are equal within a second |
| Users, teams, companies | rows and their foreign keys | create, update, delete | checks before writes; three writes of one update |
| Task, user and team events | log, notification and email queues | six listeners | several adds in a row, each of which may fail |
| WebSocket gateway | `userSockets`, rooms | connect, disconnect, register, join, leave, send | a disconnect during the token check |
| Notifications, logs, metrics, pagination | none of their own | list, mark as read, count | arithmetic at the edges |
| Storage controller, e-mail, templates, Prisma client, seed | none | pure I/O or generated | not modelled |

What makes each part correct:

* **Files.** A row that says PENDING or DELETING has a job that will resolve it; a
  row that says COMPLETED has its own bytes in the bucket; a row disappears only
  after its bytes did; nothing undoes an accepted deletion; all work ends.
* **Queue.** A job is in one place; it is tried until its attempts or its stalls are
  spent; it settles.
* **Tasks.** A status only moves along the transition table; a deleted task stays
  deleted; only the creator or the assignee writes; an update does what it was
  accepted for.
* **Sessions.** A token is consumed once; a revoked token stays revoked; logout
  ends what came before it; a deleted user has no session.
* **Org.** Members of a team belong to its company; a team has the members of its
  last list; one name belongs to one company; deletions leave an administrator in the
  system (not in each company: section 5).
* **Events.** Each event leaves the log, notification and mail it stands for, once
  unless a fault came between; what is lost is lost for a stated reason.
* **Gateway.** A connected, authenticated socket is registered, and reached by what
  is sent to its user alone; a closed socket is gone from the registry, unless it closed
  while its token was being checked: that one is registered after its own disconnect,
  under its user, and stays until the process restarts.
* **Delivery.** What a client was not pushed because it was not yet there, it finds in
  its list: nothing falls between the two. A notification is pushed again only where
  the queue cannot know that it was pushed.
* **Lists and reports.** A walk through the pages misses and repeats nothing but
  for changes made meanwhile; the numbers of a report fit each other up to the
  rows changed while they were counted. A list without an order still shows as many
  rows as there are.

## 2. Modules

| Module | Role | Code |
|---|---|---|
| `BullQueue` | one queue: wait list, delayed, active, attempts, stalls | `queue.service.ts`, Bull as used |
| `JobPool` | what a queue promises of each job, without its lists; `BullQueue` implements it | abstract |
| `FileJobs` | requests, events, workers, bucket and `files` table; instantiates `BullQueue` | `task-file-upload`, `task-file-delete`, `task-delete`, `file.listener`, `file.processor`, `cloudflare-r2.adapter` |
| `FileLifecycle` | what the endpoints promise of one row; `FileJobs` implements it | abstract |
| `EventPipeline` | events, listeners, the log, notification and e-mail queues (as `JobPool`s), processors | `task-create`, `user-create`, `task.listener`, `user.listener`, three processors |
| `TaskLifecycle` | create, update, delete of tasks, and deletion of users | `task-create`, `task-update`, `task-delete`, `user-delete`, `roles.guard` |
| `TaskFlow` | the life of a task by the transition table | abstract, `task-update.service.ts` 125-143 |
| `Org` | companies, users, roles, teams and their members | `company-create`, `user-create`, `user-update`, `user-delete`, `team-create`, `team-update`, `roles.guard` |
| `Sessions` | signin, refresh, reuse detection, logout | `auth.service`, `jwt-refresh.strategy`, `auth.controller` |
| `Gateway` | sockets, the registry, rooms, deliveries | `notifications.gateway`, `io.guard` |
| `Delivery` | the notification queue and processor, the rows, the gateway, the list and mark-as-read endpoints, composed | `notification.processor`, `notification-list`, `notification-mark-as-read`, `queue.service` |
| `Paging` | a client walking through a list | the paged list services, `response.service` |
| `Metrics` | one report and its concurrent counts | `metrics.service` |
| `FileJobsProofs` | theorems about `FileJobs`, its queue and its refinements | |
| `TaskLifecycleProofs`, `SessionsProofs`, `DeliveryProofs`, `EventPipelineProofs`, `OrgProofs`, `PagingProofs`, `MetricsProofs` | theorems about the module each is named for; `DeliveryProofs` also about `Gateway` | |
| `MC*` | instances for TLC | |

`FileJobs` composes the queue with its users by instantiating `BullQueue`, list by
list, because the order of two file jobs matters. `EventPipeline` uses the abstract
`JobPool`, because for it any order will do, and so does `Delivery`, which puts it
beside an instance of `Gateway`; the run `files_faults` checks that the lists
implement the pool, so that what holds of the pool holds of the queues.

### Conventions

* A step ends where the code awaits a call that writes or whose result is acted on
  later. Reads that are followed by further reads before the first write are one
  step where what the later reads see cannot change the outcome (the 404 checks of
  a task and of its file, for instance: the file goes with its task).
* A request's program counter is a field of its record. The operations that end in
  an error are modelled as far as they write something; requests that a guard
  refuses do nothing and are not steps.
* The foreign keys and unique indexes of `schema.prisma` are guards of the writes
  they concern: `RESTRICT` refuses, `CASCADE` and `SET NULL` act in the same step.
* Ids are handed out once. Names, contents, dates and messages do not appear,
  except as object keys (`KeyOf`) and as the second a token is signed in.
* Operators named `Operation_Slip` are mistaken variants that no specification
  uses: each shows that a property notices that slip.

### FileJobs and the code

`UploadBegin`/`UploadCreate` are `TaskFileUploadService.run`: the lookup, and one
turn of its loop with the insert and the emit. `DeleteBegin`/`DeleteMark` are
`TaskFileDeleteService.run`; the request record keeps the `filepath` it read, which
is what the job carries. `Enqueue` is `FileListener`. `StartJob` is
`handleFileJob` up to the first bucket call; `StoreBlob`, `StoreFails`,
`RecordStored`, `RecordFailed` are `handleFileUpload` with its catch block,
`RemoveBlob`, `RemoveFails`, `DropRow`, `MarkDeleteFailed` are `handleFileDelete`
with its. `FinishJob` is Bull's reaction to the returned or rejected promise. Bucket
errors come in two kinds, not applied, and applied with the answer lost, and so do
those of the database: `DbFails` refuses calls without effect, `DbAnswersLost` applies a
write and lets its caller go the way of a failed call (the update to COMPLETED is
applied and the catch block runs, or the insert and no event is emitted). A lost answer
of a catch block's own write changes nothing further: it throws either way. A crash ends a worker at any await; Bull redelivers the job.

### EventPipeline and the code

`CreateTask` and `CreateUser` are the insert together with the dispatches that
follow it in one continuation. `todo` holds what each running listener has still to
add: `AddJob` is one `await queue.add`, `AddFails` a refusal or a death, after which
nobody adds the rest. `Handle` is a handler's insert (or mail) and its return,
`Refused` the insert that names a deleted user, `HandlerFails` an error or a death
with or without the insert applied. The events of teams, of status changes and of
completion leave nothing behind (no listener, or no service that dispatches them)
and are left out.

### TaskLifecycle and the code

Each service is a pair: `...Begin` is everything up to the write, `...Insert` or
`...Write` the write. The request record carries what the write uses. Roles,
companies and team memberships do not change in this model. A request
that is served keeps nothing but its outcome (`End`). An update carries the status, which
`update-task.dto.ts` (36-38) requires, and the assignee it asks for or `Same`; the write
has only the status, neither the assignee nor the `teamId` that the DTO also offers.
`serial` is a history variable: it is TRUE until two updates of one task overlap;
creations, deletions and the deletion of users may overlap them.

### Org and the code

`CompanyBegin`/`CompanyCommit`, `UserBegin`/`UserInsert`, `TeamBegin`/`TeamInsert`/
`TeamFill` and `UpdateBegin`/`UpdateTeam`/`UpdateJoin`/`UpdateLeave` are the
services of those names, cut at their writes. A user stands for an e-mail address.
`moved`, `wanted` and `clean` are history: which teams changed company, who should
be where by the lists alone, and whether requests have overlapped or died half-way.
Every operation, deletion and role change included, is a
request of two or more steps, and roles, once given, may change: `GivenRoles` bounds
the roles requests carry, while the creator of a company becomes its ADMIN. The role
a request is admitted by is the one `JwtStrategy` read at its start. Of a user's
update the model keeps the role; a new address that is in use refuses the update at
its check or at the unique index. `companies.adminId`, which nothing reads, is left out.

### Sessions and the code

`PresentToken`, `Validate`, `Wipe` are the refresh strategy and
`validateRefreshToken`; `Revoke`, `Sign`, `Store` are `refresh` and
`generateAuthResponse`. A token is the pair of its user and the second it was signed
in. The payload also carries the user's address, role and company, which are taken not to
change: when one does within the second, the code signs another token where the model
has a collision, so the model fails in a case where the code does not. `parent`, `ended` and
`serial` are history: which token a token came from, which tokens existed at a
logout, and whether requests of one user have overlapped.

### Gateway and the code

`Connect` is `handleConnection` up to `IoGuard.checkToken`, which is asynchronous;
`Authenticate` and `Reject` are its continuations. `Close` is the disconnect with
`handleDisconnect`, which may run before them. `Register`, `JoinTeam`, `LeaveTeam`
and `JoinCompany` are the message handlers. `register` reads `payload.id`, which no
token has, so the socket also lands under the key `undefined`: `Undefined` in the
model. `Restart` loses the registry together with the sockets. `Traffic` is what
clients do; `SendToUser` and `Restart` are called by the composing module.

### Delivery and the code

`StartJob`, `Insert`, `InsertFails`, `Push` and `EndJob` are
`handleNotificationJob` cut at its only await, the insert: `sendToUser` and the return
are one continuation, and `EndIsLost` is the queue not hearing of the return. A run
stores a row of its own (`Notice` numbers the runs), because nothing in the row
identifies the job. Bull runs one job at a time, and a restart takes the connections,
the registry and the running job together: the gateway's map is in the memory of the
process that must also run the processor. `List` is asked by a client that was told
'authenticated'; `Shown` is what it then has, list and pushes together. `lostEnds` is
history.

### Paging, Metrics and the code

A page is two statements, `ReadRows` and `Count`, answered in any order. Three kinds of
list: tasks, logs and notifications in the order of their creation (rows only come and
go); teams by name (`byName`), where `Rename` is `TeamUpdateService.update` writing a new
name, which moves the row among the others; and users (`ordered` FALSE), whose query has
no `orderBy`, so that any rows of the page's length may come. `Answer` is
`ResponseService.pagination` with its 404 for the first two; the users are answered with
`success` and the count alone, no page is refused, and the client divides. `rose` and
`sank` are the rows whose new name moved them to an earlier or a later place.

A report is one `ReadNumber` per `count` query, in any order, with the writes of others
between; `Where` is the `where` of each query, including that
`{ ...taskFilter, status: 'PENDING' }` replaces the status the caller asked for. A
manager's report has a second round: `ReadStaff` is the query for the direct reports, and
`ReadStaffTasks` the two counts of each, which follow once the first round is answered.
The writes are those of the services: `ChangeTask` creates, updates or deletes a task;
`MoveTeam` gives a team to the company of the report or takes it away, and all its tasks
with it; `ChangeTeam` is one of the two `updateMany` of a team's members; `DeleteUser`
takes a member and the assignee of all the user's tasks (`SET NULL`). So a task's scope is
not its own: `Assigned` follows `users`, and an ADMIN's `Scope` follows `company`.
`changes` counts rows, not writes: the tasks and users whose rows, or whose team's row, a
write touches. `torn`, `inserted`, `atStart`, `rose`, `sank` and `changes` are history.

## 3. Runs

| Run | Instance | Shows |
|---|---|---|
| `files` | 2 files of one task, 3 requests, 2 workers, 2 attempts, failing bucket | rows, jobs and bytes agree whatever the order of uploads, deletions, retries and the task's deletion |
| `files_faults` | 1 file, 3 requests, 2 workers, plus a database that refuses calls or loses answers, crashes and lost events | no job is lost or doubled, the lists implement `JobPool`, and a stored file keeps its own bytes through all of it |
| `files_fair` | 1 file, 3 requests, 2 workers, 3 attempts, fair | `FileJobs` implements `FileLifecycle` for patient clients; uploads and deletions end |
| `files_lost_delete` | 2 files, 2 requests, 1 worker | the first finding of section 5 |
| `events` | 1 creation with up to 3 jobs, 2 users, 2 attempts, 1 stall, 2 faults, fair | what is written how often, what is lost and why, and that all settles |
| `tasks` | 1 task, 3 people (manager, admin, employee), 4 requests | who writes what, through overlaps; the transition table as long as updates do not overlap |
| `task_reassign` | the same people, 2 requests | the second finding of section 5 |
| `org` | 2 companies, 2 teams, 2 users and the roles ADMIN and MANAGER, 2 requests in flight | who belongs where, and who is left to administrate, through overlaps and deaths |
| `sessions` | 1 user, 4 requests, 4 seconds, deaths | rotation, revocation, logout |
| `delivery` | 2 sockets, 2 users, 1 job of up to 3 runs, restarts, lost answers | the registry against the sockets, and the pushes against the list |
| `paging` | up to 5 rows, pages of 2, by creation, by name and without an order, 3 rows that come, go or are renamed | what a walk misses, repeats and is refused |
| `metrics` | 2 tasks of one team and one of 2 users, 2 priorities, 1 write of one row or of several | how far the numbers of one report may be apart |

**Bounds.** Every interesting file interleaving is about one row and at most one
other that shares its task or key, an upload and up to two deletions: two files and
three requests. Two workers give every overlap of two jobs, and an upload that is
retried while its deletion runs. The crash run has one file, so that three requests
(an upload, two deletions) meet on one row. Two attempts distinguish a retry from giving up;
the fair run has the code's three. One stall is Bull's default. A task's
stale-write needs two updates and a create; the fourth request deletes. A session
needs a sign-in, two overlapping refreshes and a logout. Four seconds distinguish
same-second tokens and the two expiries (`JwtLife` 3, `RowLife` 2, so that both can
come first). Events of different creations share nothing but users, so one creation
is enough; with two faults a job can spend its attempts or its stalls. In `Org` two
requests at a time give every overlap of two, any number after one another; `Lists`
has the empty list and one member, who can then be moved between teams and dropped.
Two users are enough for one to act on the other, and for two administrators to act
on each other; roles differ between behaviours, not only between users. A user's two
sockets show one closing beside the other, or a ghost beside a live one, and a socket
of each user shows what is not theirs; a run that fails, one whose end is lost and a
third show a job that is pushed again. Five rows make three pages of two, the last
one short; three changes are one for each page, of any kind. In `Metrics` the numbers are
sums over tasks, so one write around the reads of two tasks shows each way to be counted
twice or not at all, and since both tasks are of one team and one user, moving the team
or deleting the user changes both; the proofs are for any number of writes. `Priorities`
are alike, so two stand for four; one query has
no filter, the other those of a status and a user, and a task older than its period (a
filter by priority acts like these, and is left to the proofs). Counters: a job is added once, `attempts` and
`stalls` are bounded by the guards, the clock by `MaxTime`, faults by `MaxFaults`,
changes by `MaxChanges` (in `Metrics`: no write begins once so many rows have changed).

**Symmetry** is used on requests, on workers in the safety runs of `FileJobs`, and
on sockets in `Delivery`, and on companies, their names, teams and users in `Org`
(roles start empty, so users are alike); the runs with liveness have none.

**Fairness.** `FairSpec` of `FileJobs` is weakly fair in each request's
continuation, each emitted event's listener, each due retry and each worker's next
step: Node's event loop runs every continuation, Bull hands out every ready job and
fires every delay. No fairness is given to clients, to faults, or to a bucket that
succeeds. The fair run has no crashes: a lost event is lost for good, and the run
would rightly fail. `EventPipeline` needs less: that some listener goes on while any has work, and some
job moves while any can.

**Deadlock** is not checked: every model stops once its finitely many requests are
served.

**Type invariants.** Every module states one. The runs check that of `FileJobs`
(with `BullQueue`'s inside it); the others say what values the variables have and
are not properties of a run. All are proved (`TypeCorrect`), that of `Gateway` inside
`Delivery`'s.

**Conditional properties.** `OwnBytes` and `NoOrphan` assume that no two files of a
task have one name; `NoOrphan` also that no process dies and no database call is applied
without its answer, `NoStuckRow` that neither the process nor the database fails,
`KeepsLifecycle` that clients delete what they saw stored (and, as proved, that no process
dies and no answer is lost); `OneTokenPerSignIn`,
`LogoutEndsSessions`, `OneCompanyPerName`, `MembersAsListed` and `AdminRemains` that
requests do not overlap, `KeepsFlow` that updates of a task do not, `MembersInCompany`
that the team was not given to another company, and the properties of `Paging` and `Metrics` name the changes they allow
for. Each condition is needed: dropped, TLC finds the behaviour section 5 describes. What
such a property leaves out it does not catch; `hazards` in `PROJECT.json` says for each
which part that is. `AdminRemains` counts the administrators of all companies.

## 4. Proofs

All theorems hold for every value of the constants that satisfies the assumptions
the modules state (`ASSUME`), so for any number of files, users, requests, workers,
attempts. The assumptions say that the values which mean "none" are no members of the
sets beside which they stand, that limits are natural numbers, and what the code
guarantees of its data (a file has one task; two files with one key have one task; a
page has at least one row, `@Min(1)`; lists, tasks, users and priorities are finitely
many, and no priority is called like a status or another line of the report). Every module's
argument has one shape: an inductive `Inv`, a lemma for each action, and the
properties as its consequences. TLC checked each `Inv` on small instances before
it was proved.

**`FileJobsProofs`**

* `TypeCorrect`: `TypeOK` is an invariant.
* `BooksKept`: `Books`, the bookkeeping. `Accepted`: a deletion's job exists only for
  a request that was accepted, and its path is empty or its file's key.
  `Dispatched`: the step of a worker fits the kind of the job it holds. `PathsFit`: a
  row's `filepath` is empty or the file's own key.
* `NoStuckRowHolds`: `NoStuckRow` is not inductive: a row says PENDING also while
  its upload job runs, so the strengthening `Owed`/`OwedRows` says for every step of
  the worker which status the row has and that the job is still live. It rests on
  `JobMoves`, `TakeMoves` and `SettleMoves`, which say what each queue operation
  does to the set of live jobs.
* `OwnBytesHolds`: the strengthening `Bytes` is `Kept` (a path in the row means the
  bytes are there, unless a deletion was accepted) and `Recording` (a worker about
  to record has put its bytes). It needs no assumption on faults.

It begins with the three sequence facts used: what `Append`, `Tail` and pushing at the
front do to the set of elements. From "Wait lists without repetitions" on it is about
the queue and the refinements, under every order of requests, handlers, faults and
crashes unless said otherwise:

* `OneCopyHolds`: `OneCopy`. The strengthening `OnePlace` is `OneCopy` with the wait
  list's positions replaced by two facts the sequence lemmas speak of: the list has
  no repetitions (`Distinct`), and its elements are in no other place. An upload's
  job is added only before it was ever added (`Add`'s guard), a promoted one leaves
  `delayed`, and a settled one leaves the single worker that held it.
* `ImplementsPoolHolds`: `ImplementsPool`, the refinement of `JobPool`. The mapping
  reads a job's stage off the lists; because a job is in one place (`OnePlace`), the
  stage is what the list it is in says (`StageIs`), and each operation moves one job
  and no other (`PoolMoves`).
* `NoOrphanHolds`: `NoOrphan`, for distinct keys, no crashes and no lost answers of the
  database (its own hypotheses), whatever the bucket does and whatever calls the database
  refuses. The property speaks of the end of a deletion
  only. `Claims`: no two uploads insert one file. `Recorded`: once a row has a path, no
  retry uploads it again (`UploadOver`), which is where `OnePlace` is needed: another
  copy of the job would be another upload. `Emptied`: a worker about to drop the row
  has removed the bytes, and by `Recorded` nobody brings them back. `Recorded` fails
  with crashes, and with a lost answer of the update to COMPLETED: an upload that is
  redelivered, or retried, after its row was recorded stores again.
* `KeepsLifecycleHolds`: `KeepsLifecycle`, the refinement of `FileLifecycle`, for
  patient clients, no crashes and no lost answers of the database, which may refuse any
  call. `Visible`:
  a deletion under way is that of a row whose path is recorded, so the upload's late
  writes and the deletion's never meet. Step by step, `LifeSteps`: what a step of
  requests, workers and queue changes of the rows is one upload's, one deletion's or the
  task's end. Without patience the run `files_lost_delete` shows a step that `FileLifecycle` has not.
* `WorkEndsIfDrained`: without crashes and with a database that answers, uploads and
  deletions end (`WorkEnds`) if the queue runs dry for good (`QueueDry`). It follows
  from `NoStuckRowHolds`; what remains for TLC is that under fairness the queue does.

**`TaskLifecycleProofs`**

* `DeletedStaysHolds`, `CancelledIsFixedHolds`, `KeepsFlowHolds`: none follows from one
  action alone, since the check and the write of an update are two steps. The
  inductive `Inv` says what of the check still holds at the write. `Ages`: a task
  that is being created has no row and nobody else works on it; one that is updated
  or deleted is not unborn. `Settled`: the status an update is about to write is
  CANCELLED exactly if the task's is, whatever was written in between. `Alone`: while
  `serial`, a task has one update at most, and the status it saw is the one it replaces
  (by `Ages` nobody creates the task any more, and a deletion leaves nothing to write).
  `StatusSteps` reduces every step to the write of one request.
* `WriterHasRightHolds`: `Entitled` says that an update under way is that of the
  creator or the assignee, or of a user that is gone; it needs `Ages`, because the
  insert of a task writes both columns.

**`SessionsProofs`**

* `RotationConsumesHolds`, `NoSessionWithoutUserHolds`, `NeverRevivedHolds`: `Holds`
  says of each request under way what token it carries and that a token it is about to
  replace is consumed; `Lineage` that a token's parent is consumed and of an earlier
  second, which is why the insert that would revive a token is refused by the unique
  index; `Rows` that rows go with their user.
* `OneTokenPerSignInHolds`, `LogoutEndsSessionsHolds` speak of all ancestors of a token.
  The inductive part is about parents only: `Lone` (a user has one request under way
  at most), `Unspent` (what it replaces has no successor and no logout ended it), `Chains` (one
  successor at most; a successor of an ended token is ended). That parents determine
  what holds of ancestors is an induction along `parent`. The library's induction theorems cannot be
  cited (they take an operator), so it is done by least counterexample: `FirstOfChain`
  picks, of the tokens that violate a statement, one of the least second, whose parent
  does not; `LeastNumber` derives that from the well-foundedness of finite subsets.

**`DeliveryProofs`**, of the gateway, queue, processor and endpoints together:

* `GhostsDroppedHolds`, `OnlyItsUserHolds`, `ReachesOnlineHolds`: `HubInv` is the
  gateway's part. `GhostsDropped` says which closed sockets may be registered (those that
  closed during their check, under their user), not that none is. `OwnRooms`: a user's room holds open sockets of that user only, and a
  closed socket is in no room. `Checks`: the check of a token that is still pending is
  that of a socket that is open or was dropped meanwhile.
* `NothingMissedHolds`: `Ordered` says that what was pushed is stored and what is done
  was pushed; `Current` that an online client which has listed has every push to its
  user in its list or its inbox.
* `ToldOnceHolds`: the bound of the property is not inductive, because a run that is
  under way may still be told of. `Counted` bounds the pushes an open socket has by the
  lost ends and the run that was, or will be, heard of (`Heard`), and those of any
  socket by one more.

**`EventPipelineProofs`**

* `OncePerRunHolds`: `RowPerRun` counts a row to the run that failed or died, or to
  the last one (`LastRun`).
* `NoticeBeforeLogHolds`: `InOrder` ties what a listener has still to add to what its
  queues hold. `LostOnlyWithUserHolds`: `LostWithUser`, with `Begun`: a creation whose
  jobs exist is settled, so the users they name do not change.
* `AllAskedHolds`, `ToldWhenQuiet`, `ToldIfSettled`: the part of `EventsAreTold` that is
  not about fairness. Without faults each job an event asks for is in its queue or still
  on its listener's list (`AllAsked`); so once no listener is at work and all jobs are
  settled, each has left its row or mail, or its user is gone. Where the listeners end
  and `JobsSettle` holds, `EventsAreTold` does; only those two are left to TLC.

**`OrgProofs`**

* `MembersInCompanyHolds`: `Placed` is about the rows; `Pending` says for each request
  between two of its writes what it checked that is still so or no longer matters
  (`Sound`): users never change company, teams do, but are then in `moved`.
* `OneCompanyPerNameHolds`, `MembersAsListedHolds`, `AdminRemainsHolds`: `Serial` says,
  while `clean`, that one request at most is in flight and may rely on what it read
  (`Alone`): the name is free, the team to be filled is empty, the user to be deleted is
  not the last administrator of the system (no claim is made for each company, nor of
  changes of role); and that between the writes of an update the teams are
  `wanted` but for the members it has still to release.

**`PagingProofs`**

* `FindsPagesHolds`, `RepeatsNothingHolds`, `MissesNothingHolds`, for any finite set of
  rows and any page length. `Inv` says where in the list the rows stand that were
  shown. `Found`: the next page begins before the end of the list, and of the count
  (`PerPageFacts`: `Math.ceil` counts the pages that begin before the last row). `Once`:
  without insertions and moves to an earlier place, what was shown stands before the next
  page, but for rows that were themselves moved to a later one. `NoneLeft`: without
  deletions, torn pages and moves to a later place everything before the next page was
  shown, but for new rows and those that were themselves moved to an earlier one, and once
  rows and count are both read, the count says whether anything is left.
  `InsertedRows`, `RemovedRows` and `RenamedRows` say where rows go when one comes, goes or
  is renamed.

* `ShowsAsManyHolds` is about sums of `seen` over the rows. `AsMany` says that, while
  nothing changes, the rows shown are as many as stand before the page asked for. What
  the fold in `ShowsAsMany` computes is an induction over a set with an operator as a
  parameter, which no prover here can instantiate. So `PairsAre` counts the pairs of a row
  and one of its showings instead, and `SumIs` shows that the fold is that count: both satisfy
  the fold's recursive equation, and two functions that satisfy it agree, since
  there is no least finite set on which they differ.

**`MetricsProofs`**, for any tasks, teams, users and priorities, any order of the queries
and any number of writes between them, each of any number of rows:

* The idea is `Value`, a number as it was read or, before that, as it would be read
  now: a query that is answered moves no value (`ValuesStay`). `Touches` names the rows a
  write changes; a value moves by those of them that leave and join what the number
  counts (`Turn`, `ValueTurns`), or not at all if it was read. `Statuses`, `Rates` and
  `Sums` are the properties with values for what is read; they hold at first by counting
  sets that lie apart (`Apart`), and each write lets them drift by no more than the rows
  it changes, as `changes` does.
* `StatusesFitHolds` (`StatusesTurn`): a changed task joins one shown status at most, and
  not without being in the total. `PrioritiesFitHolds` (`SumsTurn`): the same for the sum,
  counted as the pairs of a priority that is read and one of its tasks, and the tasks of
  those that are not (`SumIs` as in `PagingProofs`, with which it shares no state).
* `RatesFitHolds`: what is completed was assigned in the period or is older.
* `RankFitsHolds`: `Ranks` compares the place found with the team at the moment of that
  read, and the team then with the size that is read before or after (`RanksRead`,
  `RanksTurn`).

**Only model-checked.** Liveness: `WorkEnds`, `EventsAreTold` and `JobsSettle`, of which
the prover reaches what does not need fairness (`WorkEndsIfDrained`, `ToldIfSettled`): that
weakly fair workers, queues and listeners come to an end needs ENABLED. Every
invariant and action property of the passing runs, and both refinements, are
proved. The properties of the two runs that expect a violation are false.

## 5. Findings

`files_lost_delete`. A deletion accepted while the upload is under way carries an
empty path, its job fails on it, and `handleFileUpload` writes COMPLETED over
DELETING: the file the client was told would go is back.

Behaviours the conditions of section 3 exclude, each of which TLC shows when the
condition is dropped:

* The object key is `tasks/{taskId}/{originalname}`; two files of one name share it,
  and deleting one removes the bytes of the other.
* Two overlapping updates of a task that was IN_PROGRESS can take it out of COMPLETED: one
  completes it, and the other, which keeps the status it read, writes IN_PROGRESS.
* The update to COMPLETED of an upload may be applied and its answer lost. The client sees
  COMPLETED and deletes the file; the catch block then writes FAILED over DELETING, and
  the retry stores the bytes again and writes COMPLETED, or, with the row gone, leaves
  bytes that no job will remove.
* The listener's add may be refused, or the process stop before it: the row stays PENDING
  or DELETING.
* Two overlapping refreshes of one token both issue a pair. A refresh between its
  revoke and its create survives a logout and reuse detection. A refresh within the
  second of its token's signing builds the same string, and fails on the unique
  index after the old token was revoked.
* Two overlapping creations store one company name twice. Two overlapping updates of
  a team leave it with the members of neither list. A team given to another company
  without a list keeps its members.
* A socket that closes while its token is checked is registered after its disconnect and
  stays; it is sent to, and nobody receives it.
* A row that arrives between the count and the rows of a page is pushed to a page
  the client is not told of. A team that is renamed to a later name between two pages is
  shown twice, or hides the row that takes its place; to an earlier one, it is missed, or
  another is repeated.
* One write can change many rows of a report: a team that is given to another company
  takes all its tasks along, a deleted user leaves all of theirs.
* Two administrators who delete each other at once, or give up the role, leave a
  company without one. Without any overlap, an ADMIN of another company may delete the
  last one, and a change of role may take the role from it.

`task_reassign`. `TaskUpdateService` checks a new assignee under "Handle assignment
change" and leaves `assignedToId` out of the data it writes: the update is answered as
done, and the task stays with the old assignee. No interleaving is needed.

Differences between code and text that need no run:

* `schema.prisma:158` describes `File.status` as `PENDING, COMPLETED, FAILED`. The code
  also writes DELETING (`task-file-delete.service.ts`) and DELETE_FAILED
  (`file.processor.ts`), and the model's `RowStatus`, like `TypeOK`, has the five values
  the code writes, not the three of the comment. A client that knows only those meets two
  more.
* A direct report's completion rate divides the tasks completed in the period by the
  tasks created in it, and exceeds 100 by the older ones (`RatesFit`: by no more).
* The completion rate of an employee in `MetricsService`, "(completed / total) * 100", divides a
  number the status filter does not apply to by one it does, and may exceed 100.
* The most productive users are ordered by all tasks assigned to them, completed or not.
* The users' list has no order, so its pages may repeat and leave out rows while
  nothing changes; `ShowsAsMany` is what remains true of it.

## 6. Not modelled

Crashed processes restart at once: a worker that died takes the next job. Bull's
other cause of redelivery, a worker that is alive but blocked for longer than its
lock, is not modelled in `FileJobs` (its handlers only await, and a timer renews the
lock); in `Delivery`, `EndIsLost` stands for it. `removeOnComplete`, job priorities
(one per queue), the queue's statistics and cleaning calls, which no code calls, and
`sendToTeam`, `sendToCompany` and `broadcast`, which no code calls either, are left
out, and so are the notification, user and team numbers of a report, its averages and
top lists, which are counts and sorts without a second look at the rows. Rows that tie in the order of a list are taken to keep one order. The
storage controller (which bypasses the files table), e-mail rendering, the templates,
the DTO classes and module wiring hold no state of their own. The services that find
one row (`task-find`, `user-find`, `team-find`, `task-file-list`) are a query and a
projection.

Two thirds of the TypeScript lines (17 265 of 25 729) are the generated Prisma client
in `src/src/database/generated`: types and delegations without a decision of this
program. What the models use of it is the meaning of one statement, and of the foreign
keys and indexes of `schema.prisma`. Of the rest, DTOs, Swagger decorators, modules and
controllers that pass a call on are most of what no definition stands for.

## 7. Plan

1. done: the queue, files, tasks, sessions, gateway, events, organisation, lists and
   reports; the first theorems.
2. done: changes of role and overlapping deletions in `Org`; the unordered list; the
   notification queue, processor, gateway and list composed in `Delivery`; the
   queue's promises checked under the file handlers and their crashes.
3. done: `OneCopy` and `ImplementsPool` of the file queue; `DeletedStays`,
   `CancelledIsFixed`, `WriterHasRight` and `KeepsFlow` of `TaskLifecycle`.
4. done: `NoOrphan` and `KeepsLifecycle` of `FileJobs`; every invariant and action
   property of `Delivery`, `Sessions`, `Org`, `EventPipeline`, `Paging` and `Metrics`;
   what liveness rests on besides fairness.
5. done: writes of many rows under a report, renamed teams and the users' own answer under a
   walk, lost answers of the database in `FileJobs`.
6. left: `Sessions` with roles and companies that change between two signings; an
   `AdminRemains` for each company would need the code to check it first.
