------------------------------ MODULE FileJobs ------------------------------
(***************************************************************************)
(* The files of tasks: upload and delete requests, the file queue, and the *)
(* workers that move bytes between the job payload, the R2 bucket and the  *)
(* files table.                                                            *)
(*                                                                         *)
(* Every await of the code is a step boundary.  A request reads a row,     *)
(* writes it in a later step and then emits an event; the listener adds a  *)
(* job in yet another step; a worker calls the bucket, the database, and   *)
(* in its catch block the database again.  A call to the bucket or to the  *)
(* database may fail before it is applied, or after: the answer is lost,   *)
(* and the caller takes the way of a failed call.                          *)
(***************************************************************************)
EXTENDS Naturals, Sequences, FiniteSets

CONSTANTS
  Tasks,         \* tasks that exist when the model starts
  Files,         \* ids the files table hands out, each once
  Keys,          \* object keys of the bucket
  TaskOf,        \* the task a file is uploaded to
  KeyOf,         \* tasks/{taskId}/{originalname}: the file's object key
  Requests,      \* HTTP requests; each is served once
  Workers,       \* processes that run FileProcessor
  MaxAttempts,   \* 3 in addFileJob
  MaxStalls,     \* Bull's default, 1
  StorageFails,  \* the bucket may refuse a call, before or after applying it
  DbFails,       \* a database call may be refused, without effect
  DbAnswersLost, \* a database write may be applied and fail for its caller
  Crashes,       \* a process may die between two steps, or Redis refuse a job
  PatientClients, \* clients delete a file only after they saw it stored
  NoFile, NoPath, NoJob

ASSUME TaskOfAssumption == TaskOf \in [Files -> Tasks]
ASSUME KeyOfAssumption == KeyOf \in [Files -> Keys]
ASSUME FolderAssumption ==
  \A f, g \in Files : KeyOf[f] = KeyOf[g] => TaskOf[f] = TaskOf[g]
ASSUME FlagsAssumption ==
  /\ StorageFails \in BOOLEAN
  /\ DbFails \in BOOLEAN /\ DbAnswersLost \in BOOLEAN
  /\ Crashes \in BOOLEAN /\ PatientClients \in BOOLEAN
ASSUME IdsAssumption ==
  /\ Files \cap Requests = {}
  /\ NoFile \notin Files /\ NoPath \notin Keys
  /\ NoJob \notin Files \cup Requests
ASSUME BoundsAssumption == MaxAttempts \in Nat \ {0} /\ MaxStalls \in Nat

VARIABLES
  tasks,     \* rows of the tasks table
  status,    \* files.status, or why there is no row
  filepath,  \* files.filepath ('' is NoPath)
  blobs,     \* whose bytes the bucket holds under each key
  req,       \* the requests
  emitted,   \* events whose listener has not reached Redis yet
  work,      \* where each worker is in handleFileJob
  wait, delayed, active, failed, completed, attempts, stalls

(***************************************************************************)
(* Upload jobs are identified by the file they store and delete jobs by    *)
(* the request that asked: a file is uploaded once, but may be asked to be *)
(* deleted by several requests.                                            *)
(***************************************************************************)
Jobs == Files \cup Requests

Queue == INSTANCE BullQueue

db      == <<tasks, status, filepath>>
queue   == <<wait, delayed, active, failed, completed, attempts, stalls>>
vars    == <<tasks, status, filepath, blobs, req, emitted, work,
             wait, delayed, active, failed, completed, attempts, stalls>>

\* The values the code writes.  The comment on the column names PENDING,
\* COMPLETED and FAILED only (README, section 5).
RowStatus == {"PENDING", "COMPLETED", "FAILED", "DELETING", "DELETE_FAILED"}
NoRow     == {"unborn", "removed"}

HasRow(f) == status[f] \in RowStatus

\* The payload of a job: an upload names its file; a delete carries the file
\* and the filepath its request had read.
FileOf(j) == IF j \in Files THEN j ELSE req[j].file
PathOf(j) == req[j].path

ReqStates  == {"idle", "creating", "marking", "uploaded", "queued", "error"}
WorkStates == {"idle", "storing", "recording", "failing",
               "removing", "dropping", "markingFailed", "done", "throwing"}

----------------------------------------------------------------------------
Init ==
  /\ tasks = Tasks
  /\ status = [f \in Files |-> "unborn"]
  /\ filepath = [f \in Files |-> NoPath]
  /\ blobs = [k \in Keys |-> NoFile]
  /\ req = [r \in Requests |->
              [pc |-> "idle", todo |-> {}, file |-> NoFile, path |-> NoPath]]
  /\ emitted = {}
  /\ work = [w \in Workers |-> "idle"]
  /\ Queue!QueueInit

----------------------------------------------------------------------------
(* Requests *)

Claimed == UNION {req[r].todo : r \in Requests}

\* TaskFileUploadService.run up to the loop: the task exists.
UploadBegin(r, fs) ==
  /\ req[r].pc = "idle"
  /\ fs # {}
  /\ \A f \in fs : status[f] = "unborn" /\ f \notin Claimed
  /\ \E t \in tasks : \A f \in fs : TaskOf[f] = t
  /\ req' = [req EXCEPT ![r].pc = "creating", ![r].todo = fs]
  /\ UNCHANGED <<db, blobs, emitted, work, queue>>

\* One turn of the loop: insert the row, emit the event.  The foreign key
\* refuses the row when the task went away since; a row whose insert answers
\* with an error has no event.
UploadCreate(r, f) ==
  /\ req[r].pc = "creating"
  /\ f \in req[r].todo
  /\ \/ /\ TaskOf[f] \in tasks
        /\ status' = [status EXCEPT ![f] = "PENDING"]
        /\ emitted' = emitted \cup {f}
        /\ req' = [req EXCEPT ![r].pc = IF req[r].todo = {f} THEN "uploaded" ELSE @,
                              ![r].todo = req[r].todo \ {f}]
     \/ /\ \/ TaskOf[f] \notin tasks /\ UNCHANGED status
           \/ /\ TaskOf[f] \in tasks /\ DbAnswersLost
              /\ status' = [status EXCEPT ![f] = "PENDING"]
        /\ req' = [req EXCEPT ![r].pc = "error", ![r].todo = {}]
        /\ UNCHANGED emitted
  /\ UNCHANGED <<tasks, filepath, blobs, work, queue>>

\* TaskFileDeleteService.run up to its write: the task and the file exist, and
\* the request keeps the row it read.
DeleteBegin(r, f) ==
  /\ req[r].pc = "idle"
  /\ TaskOf[f] \in tasks
  /\ HasRow(f)
  /\ PatientClients => filepath[f] # NoPath
  /\ req' = [req EXCEPT ![r].pc = "marking", ![r].file = f,
                        ![r].path = filepath[f]]
  /\ UNCHANGED <<db, blobs, emitted, work, queue>>

\* Status DELETING, then the event with the path read before.
DeleteMark(r) ==
  /\ req[r].pc = "marking"
  /\ \/ /\ HasRow(req[r].file)
        /\ status' = [status EXCEPT ![req[r].file] = "DELETING"]
        /\ emitted' = emitted \cup {r}
        /\ req' = [req EXCEPT ![r].pc = "queued"]
     \/ /\ \/ ~HasRow(req[r].file) /\ UNCHANGED status
           \/ /\ HasRow(req[r].file) /\ DbAnswersLost
              /\ status' = [status EXCEPT ![req[r].file] = "DELETING"]
        /\ req' = [req EXCEPT ![r].pc = "error"]
        /\ UNCHANGED emitted
  /\ UNCHANGED <<tasks, filepath, blobs, work, queue>>

\* The request dies at an await: its database call fails or the process stops.
\* What it wrote before stays.
RequestDies(r) ==
  /\ DbFails \/ Crashes
  /\ req[r].pc \in {"creating", "marking"}
  /\ req' = [req EXCEPT ![r].pc = "error", ![r].todo = {}]
  /\ UNCHANGED <<db, blobs, emitted, work, queue>>

\* TaskDeleteService.delete: the foreign key takes the task's file rows along;
\* nothing tells the bucket or the queue.
DeleteTask(t) ==
  /\ t \in tasks
  /\ tasks' = tasks \ {t}
  /\ status' = [f \in Files |-> IF TaskOf[f] = t /\ HasRow(f)
                                THEN "removed" ELSE status[f]]
  /\ UNCHANGED <<filepath, blobs, req, emitted, work, queue>>

\* FileListener: the event becomes a job.
Enqueue(j) ==
  /\ j \in emitted
  /\ emitted' = emitted \ {j}
  /\ Queue!Add(j)
  /\ UNCHANGED <<db, blobs, req, work>>

\* The add is rejected, or the process dies first; the emitter drops the error.
LoseEvent(j) ==
  /\ Crashes
  /\ j \in emitted
  /\ emitted' = emitted \ {j}
  /\ UNCHANGED <<db, blobs, req, work, queue>>

----------------------------------------------------------------------------
(* FileProcessor *)

\* handleFileJob: dispatch on the action.  A delete without a path throws
\* before it touches the bucket.
StartJob(w) ==
  /\ work[w] = "idle"
  /\ Queue!Take(w)
  /\ LET j == Head(wait) IN
       work' = [work EXCEPT ![w] =
                  IF j \in Files THEN "storing"
                  ELSE IF PathOf(j) = NoPath THEN "markingFailed"
                  ELSE "removing"]
  /\ UNCHANGED <<db, blobs, req, emitted>>

\* uploadFile: put the bytes under the key, whatever is there.
StoreBlob(w) ==
  /\ work[w] = "storing"
  /\ blobs' = [blobs EXCEPT ![KeyOf[active[w]]] = active[w]]
  /\ work' = [work EXCEPT ![w] = "recording"]
  /\ UNCHANGED <<db, req, emitted, queue>>

\* Mistaken variants (here and below): the code never runs them.  Each is a
\* plausible slip in the operation that follows it and shows that a property
\* notices the slip.
StoreFails_ResultIgnored(w) ==
  /\ StorageFails
  /\ work[w] = "storing"
  /\ work' = [work EXCEPT ![w] = "recording"]
  /\ UNCHANGED <<db, blobs, req, emitted, queue>>

\* The put reports an error; a lost answer leaves the bytes behind.
StoreFails(w) ==
  /\ StorageFails
  /\ work[w] = "storing"
  /\ \/ UNCHANGED blobs
     \/ blobs' = [blobs EXCEPT ![KeyOf[active[w]]] = active[w]]
  /\ work' = [work EXCEPT ![w] = "failing"]
  /\ UNCHANGED <<db, req, emitted, queue>>

\* Status COMPLETED with the path, whatever the status was; no row, or a lost
\* answer, throws into the catch block.
RecordStored(w) ==
  /\ work[w] = "recording"
  /\ \/ /\ HasRow(active[w])
        /\ status' = [status EXCEPT ![active[w]] = "COMPLETED"]
        /\ filepath' = [filepath EXCEPT ![active[w]] = KeyOf[active[w]]]
        /\ \/ work' = [work EXCEPT ![w] = "done"]
           \/ DbAnswersLost /\ work' = [work EXCEPT ![w] = "failing"]
     \/ /\ ~HasRow(active[w]) \/ DbFails
        /\ work' = [work EXCEPT ![w] = "failing"]
        /\ UNCHANGED <<status, filepath>>
  /\ UNCHANGED <<tasks, blobs, req, emitted, queue>>

RecordFailed_StatusForgotten(w) ==
  /\ work[w] = "failing"
  /\ work' = [work EXCEPT ![w] = "throwing"]
  /\ UNCHANGED <<db, blobs, req, emitted, queue>>

\* The catch block of handleFileUpload: status FAILED, and throw either way.
RecordFailed(w) ==
  /\ work[w] = "failing"
  /\ \/ /\ HasRow(active[w])
        /\ status' = [status EXCEPT ![active[w]] = "FAILED"]
     \/ /\ ~HasRow(active[w]) \/ DbFails
        /\ UNCHANGED status
  /\ work' = [work EXCEPT ![w] = "throwing"]
  /\ UNCHANGED <<tasks, filepath, blobs, req, emitted, queue>>

\* deleteFile: removing a key that is not there succeeds too.
RemoveBlob(w) ==
  /\ work[w] = "removing"
  /\ blobs' = [blobs EXCEPT ![PathOf(active[w])] = NoFile]
  /\ work' = [work EXCEPT ![w] = "dropping"]
  /\ UNCHANGED <<db, req, emitted, queue>>

RemoveFails_ResultIgnored(w) ==
  /\ StorageFails
  /\ work[w] = "removing"
  /\ work' = [work EXCEPT ![w] = "dropping"]
  /\ UNCHANGED <<db, blobs, req, emitted, queue>>

\* The same call when the bucket answers with an error.
RemoveFails(w) ==
  /\ StorageFails
  /\ work[w] = "removing"
  /\ \/ UNCHANGED blobs
     \/ blobs' = [blobs EXCEPT ![PathOf(active[w])] = NoFile]
  /\ work' = [work EXCEPT ![w] = "markingFailed"]
  /\ UNCHANGED <<db, req, emitted, queue>>

DropRow(w) ==
  LET f == FileOf(active[w]) IN
  /\ work[w] = "dropping"
  /\ \/ /\ HasRow(f)
        /\ status' = [status EXCEPT ![f] = "removed"]
        /\ \/ work' = [work EXCEPT ![w] = "done"]
           \/ DbAnswersLost /\ work' = [work EXCEPT ![w] = "markingFailed"]
     \/ /\ ~HasRow(f) \/ DbFails
        /\ work' = [work EXCEPT ![w] = "markingFailed"]
        /\ UNCHANGED status
  /\ UNCHANGED <<tasks, filepath, blobs, req, emitted, queue>>

MarkDeleteFailed_Restores(w) ==
  /\ work[w] = "markingFailed"
  /\ status' = [status EXCEPT ![FileOf(active[w])] =
                  IF HasRow(FileOf(active[w])) THEN "COMPLETED" ELSE @]
  /\ work' = [work EXCEPT ![w] = "throwing"]
  /\ UNCHANGED <<tasks, filepath, blobs, req, emitted, queue>>

MarkDeleteFailed_OtherSpelling(w) ==
  /\ work[w] = "markingFailed"
  /\ status' = [status EXCEPT ![FileOf(active[w])] =
                  IF HasRow(FileOf(active[w])) THEN "DELETION_FAILED" ELSE @]
  /\ work' = [work EXCEPT ![w] = "throwing"]
  /\ UNCHANGED <<tasks, filepath, blobs, req, emitted, queue>>

\* The catch block of handleFileDelete.
MarkDeleteFailed(w) ==
  LET f == FileOf(active[w]) IN
  /\ work[w] = "markingFailed"
  /\ \/ /\ HasRow(f)
        /\ status' = [status EXCEPT ![f] = "DELETE_FAILED"]
     \/ /\ ~HasRow(f) \/ DbFails
        /\ UNCHANGED status
  /\ work' = [work EXCEPT ![w] = "throwing"]
  /\ UNCHANGED <<tasks, filepath, blobs, req, emitted, queue>>

\* The handler returned or threw, and Bull settles the job.
FinishJob(w) ==
  /\ \/ work[w] = "done" /\ Queue!Succeed(w)
     \/ work[w] = "throwing" /\ Queue!Reject(w)
  /\ work' = [work EXCEPT ![w] = "idle"]
  /\ UNCHANGED <<db, blobs, req, emitted>>

Retry(j) ==
  /\ Queue!Promote(j)
  /\ UNCHANGED <<db, blobs, req, emitted, work>>

\* The worker's process dies at any await; Bull notices the stalled job.
WorkerDies(w) ==
  /\ Crashes
  /\ Queue!Stall(w)
  /\ work' = [work EXCEPT ![w] = "idle"]
  /\ UNCHANGED <<db, blobs, req, emitted>>

----------------------------------------------------------------------------
UploadStep(w) == StoreBlob(w) \/ StoreFails(w) \/ RecordStored(w) \/ RecordFailed(w)

DeleteStep(w) == RemoveBlob(w) \/ RemoveFails(w) \/ DropRow(w) \/ MarkDeleteFailed(w)

RequestStep(r) ==
  \/ \E f \in Files : UploadCreate(r, f)
  \/ DeleteMark(r)

Next ==
  \/ \E r \in Requests :
       \/ \E fs \in SUBSET Files : UploadBegin(r, fs)
       \/ \E f \in Files : DeleteBegin(r, f)
       \/ RequestStep(r)
       \/ RequestDies(r)
  \/ \E t \in Tasks : DeleteTask(t)
  \/ \E j \in Jobs : Enqueue(j) \/ LoseEvent(j) \/ Retry(j)
  \/ \E w \in Workers : \/ StartJob(w) \/ UploadStep(w) \/ DeleteStep(w)
                        \/ FinishJob(w) \/ WorkerDies(w)

Spec == Init /\ [][Next]_vars

\* Node runs every continuation, Bull hands out every ready job and fires
\* every delay.  Clients owe nothing, and nothing has to fail.
Fairness ==
  /\ \A r \in Requests : WF_vars(RequestStep(r))
  /\ \A j \in Jobs : WF_vars(Enqueue(j)) /\ WF_vars(Retry(j))
  /\ \A w \in Workers :
       WF_vars(StartJob(w) \/ UploadStep(w) \/ DeleteStep(w) \/ FinishJob(w))

FairSpec == Spec /\ Fairness

----------------------------------------------------------------------------
(* Properties *)

TypeOK ==
  /\ tasks \subseteq Tasks
  /\ status \in [Files -> RowStatus \cup NoRow]
  /\ filepath \in [Files -> Keys \cup {NoPath}]
  /\ blobs \in [Keys -> Files \cup {NoFile}]
  /\ req \in [Requests -> [pc : ReqStates, todo : SUBSET Files,
                           file : Files \cup {NoFile}, path : Keys \cup {NoPath}]]
  /\ emitted \subseteq Jobs
  /\ work \in [Workers -> WorkStates]
  /\ Queue!QueueTypeOK

InFlight(j) == j \in emitted \/ j \in Queue!Live

DeleteJobs(f) == {r \in Requests : req[r].file = f /\ req[r].pc = "queued"}

UniqueKeys == \A f, g \in Files : KeyOf[f] = KeyOf[g] => f = g

\* Through retries, redeliveries and deaths, with new jobs arriving meanwhile, a
\* job of the file queue is never lost, run twice at once or listed twice.
OneCopy == Queue!OneCopy

\* Whatever handlers and faults do, the lists of the queue keep what the pool of
\* jobs promises: attempts are counted, and nothing settled is run again.
ImplementsPool == Queue!ImplementsPool

\* A row that says work is going on has a job that does it: no PENDING row
\* without its upload job and no DELETING row without a delete job, as long as
\* no process dies and the database answers.
NoStuckRow ==
  ~Crashes /\ ~DbFails /\ ~DbAnswersLost =>
    \A f \in Files :
      /\ status[f] = "PENDING" => InFlight(f)
      /\ status[f] = "DELETING" => \E r \in DeleteJobs(f) : InFlight(r)

\* A file shown as COMPLETED whose deletion was never accepted has its own bytes
\* in the bucket, through every crash, redelivery and failed call, as long as no
\* two files of a task share a name.
OwnBytes ==
  UniqueKeys =>
    \A f \in Files :
      status[f] = "COMPLETED" /\ DeleteJobs(f) = {} => blobs[KeyOf[f]] = f

\* A row only goes away after the file's bytes did, or with its task: no delete
\* order and no refused call leaves bytes that no row leads to, between crashes
\* and as long as a database call that was applied is also answered.
NoOrphan ==
  UniqueKeys /\ ~Crashes /\ ~DbAnswersLost =>
    \A f \in Files :
      status[f] = "removed" /\ TaskOf[f] \in tasks => blobs[KeyOf[f]] # f

\* The file endpoints as clients see them.  Holds for clients that delete only
\* what they saw stored, between crashes and lost answers of the database.
Lifecycle == INSTANCE FileLifecycle
               WITH Folders <- Tasks, FolderOf <- TaskOf, open <- tasks

\* Every step is a step of a file's promised life: in particular no file comes
\* back from DELETING, and no retry touches what a later request decided.
KeepsLifecycle == Lifecycle!LifeSpec

\* Uploads and deletions that were accepted come to an end.
WorkEnds == Lifecycle!Progress

\* "File deletion queued for processing": once a deletion was accepted the file
\* is not shown as stored again.
DeletionSticks ==
  [][\A f \in Files :
       DeleteJobs(f) # {} /\ status[f] # "COMPLETED" => status'[f] # "COMPLETED"]_vars
=============================================================================
