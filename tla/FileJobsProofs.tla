--------------------------- MODULE FileJobsProofs ---------------------------
(***************************************************************************)
(* Theorems about FileJobs, for any set of files, requests and workers and *)
(* any attempt and stall limits, under every order of requests, handlers,  *)
(* faults and crashes: first what holds whichever way a job moves through  *)
(* the queue (no row is stuck, stored bytes are kept); then the queue's    *)
(* own promise, that a job is in one place; and what rests on it (no bytes *)
(* without a row, and the life of a row as clients see it).                *)
(***************************************************************************)
EXTENDS FileJobs, TLAPS

(* What appending to, taking from and pushing on a wait list does to the jobs in it *)

\* The elements of a wait list.
InList(s) == {s[i] : i \in 1..Len(s)}

\* The wait list as a set, after each of the operations on it.
LEMMA AppendRange ==
  ASSUME NEW S, NEW s \in Seq(S), NEW e \in S
  PROVE  /\ Append(s, e) \in Seq(S)
         /\ InList(Append(s, e))
              = InList(s) \cup {e}
  <1>1. /\ Append(s, e) \in Seq(S)
        /\ Len(Append(s, e)) = Len(s) + 1
        /\ \A i \in 1..Len(s) : Append(s, e)[i] = s[i]
        /\ Append(s, e)[Len(s) + 1] = e
        /\ Len(s) \in Nat
    OBVIOUS
  <1>2. 1..(Len(s) + 1) = 1..Len(s) \cup {Len(s) + 1}
    BY <1>1
  <1> QED
    BY <1>1, <1>2 DEF InList

\* Taking the head removes it from the elements, and nothing else.
LEMMA TailRange ==
  ASSUME NEW S, NEW s \in Seq(S), s # <<>>
  PROVE  /\ Tail(s) \in Seq(S)
         /\ Head(s) \in S
         /\ InList(s) = InList(Tail(s)) \cup {Head(s)}
  <1> DEFINE t == Tail(s)
  <1>1. /\ t \in Seq(S)
        /\ Head(s) \in S
        /\ Head(s) = s[1]
        /\ Len(s) \in Nat \ {0}
        /\ Len(t) = Len(s) - 1
        /\ \A i \in 1..Len(t) : t[i] = s[i + 1]
    OBVIOUS
  <1> HIDE DEF t
  <1>2. ASSUME NEW i \in 1..Len(s) PROVE s[i] \in InList(t) \cup {Head(s)}
    <2>1. CASE i = 1
      BY <2>1, <1>1
    <2>2. CASE i # 1
      <3>1. i - 1 \in 1..Len(t) /\ (i - 1) + 1 = i
        BY <1>1, <2>2
      <3>2. t[i - 1] = s[i]
        BY <1>1, <3>1
      <3> QED
        BY <3>1, <3>2 DEF InList
    <2> QED
      BY <2>1, <2>2
  <1>3. ASSUME NEW i \in 1..Len(t) PROVE t[i] \in InList(s)
    <2>1. i + 1 \in 1..Len(s)
      BY <1>1
    <2> QED
      BY <1>1, <2>1 DEF InList
  <1>4. Head(s) \in InList(s)
    <2>1. 1 \in 1..Len(s)
      BY <1>1
    <2> QED
      BY <1>1, <2>1 DEF InList
  <1>5. InList(s) = InList(t) \cup {Head(s)}
    BY <1>2, <1>3, <1>4 DEF InList
  <1> QED
    BY <1>1, <1>5 DEF t

\* Pushing at the front adds one element.
LEMMA PushRange ==
  ASSUME NEW S, NEW s \in Seq(S), NEW e \in S
  PROVE  /\ <<e>> \o s \in Seq(S)
         /\ InList(<<e>> \o s) = InList(s) \cup {e}
  <1> DEFINE t == <<e>> \o s
  <1>1. /\ t \in Seq(S)
        /\ Len(t) = Len(s) + 1
        /\ Len(s) \in Nat
        /\ t[1] = e
        /\ \A i \in 1..Len(s) : t[i + 1] = s[i]
    OBVIOUS
  <1> HIDE DEF t
  <1>2. ASSUME NEW i \in 1..Len(t) PROVE t[i] \in InList(s) \cup {e}
    <2>1. CASE i = 1
      BY <2>1, <1>1
    <2>2. CASE i # 1
      <3>1. i - 1 \in 1..Len(s) /\ (i - 1) + 1 = i
        BY <1>1, <2>2
      <3>2. t[i] = s[i - 1]
        BY <1>1, <3>1
      <3> QED
        BY <3>1, <3>2 DEF InList
    <2> QED
      BY <2>1, <2>2
  <1>3. ASSUME NEW i \in 1..Len(s) PROVE s[i] \in InList(t)
    <2>1. i + 1 \in 1..Len(t)
      BY <1>1
    <2> QED
      BY <1>1, <2>1 DEF InList
  <1>4. e \in InList(t)
    <2>1. 1 \in 1..Len(t)
      BY <1>1
    <2> QED
      BY <1>1, <2>1 DEF InList
  <1>5. InList(t) = InList(s) \cup {e}
    BY <1>2, <1>3, <1>4 DEF InList
  <1> QED
    BY <1>1, <1>5 DEF t

----------------------------------------------------------------------------
(* Bookkeeping *)

(***************************************************************************)
(* The pipeline's bookkeeping, the part of every invariant below: a delete *)
(* job exists only for a request that was accepted, the request kept the   *)
(* path of its file or none, and a worker's step fits the job it holds.    *)
(***************************************************************************)
Accepted ==
  \A r \in Requests :
    /\ r \in emitted \cup Queue!Live => req[r].pc = "queued"
    /\ req[r].pc \in {"marking", "queued"} =>
         req[r].file \in Files /\ req[r].path \in {NoPath, KeyOf[req[r].file]}

Dispatched ==
  \A w \in Workers :
    /\ work[w] = "idle" <=> active[w] = NoJob
    /\ work[w] \in {"storing", "recording", "failing"} => active[w] \in Files
    /\ work[w] \in {"removing", "dropping", "markingFailed"} => active[w] \in Requests
    /\ work[w] = "removing" => req[active[w]].path # NoPath

\* A filepath is the file's own object key.
PathsFit == \A f \in Files : filepath[f] \in {NoPath, KeyOf[f]}

Books == TypeOK /\ Accepted /\ Dispatched /\ PathsFit

Request == [pc : ReqStates, todo : SUBSET Files,
            file : Files \cup {NoFile}, path : Keys \cup {NoPath}]

\* Moving a request on keeps the type of the requests.
LEMMA EditRequest ==
  ASSUME req \in [Requests -> Request], NEW r \in Requests,
         NEW p \in ReqStates, NEW fs \in SUBSET Files,
         req' = [req EXCEPT ![r].pc = p, ![r].todo = fs]
  PROVE  req' \in [Requests -> Request]
  <1> DEFINE q == [req[r] EXCEPT !.pc = p, !.todo = fs]
  <1>1. req[r] \in Request
    OBVIOUS
  <1>2. q \in Request
    BY <1>1 DEF Request
  <1>3. \A x \in Requests : req'[x] = IF x = r THEN q ELSE req[x]
    OBVIOUS
  <1>4. req' = [x \in Requests |-> req'[x]]
    OBVIOUS
  <1> HIDE DEF q
  <1>5. \A x \in Requests : req'[x] \in Request
    BY <1>2, <1>3
  <1> QED
    BY <1>4, <1>5

----------------------------------------------------------------------------
(* The queue's operations *)

\* What each operation that names a job does to the types and the live jobs.
LEMMA JobMoves ==
  ASSUME Queue!QueueTypeOK, NEW j \in Jobs, Queue!Add(j) \/ Queue!Promote(j)
  PROVE  /\ Queue!QueueTypeOK'
         /\ Queue!Live' = Queue!Live \cup {j}
         /\ active' = active
  <1>1. /\ wait \in Seq(Jobs)
        /\ wait' = Append(wait, j)
        /\ active' = active
        /\ attempts' = attempts /\ stalls' = stalls
        /\ failed' = failed /\ completed' = completed
        /\ \/ delayed' = delayed
           \/ j \in delayed /\ delayed' = delayed \ {j}
    BY DEF Queue!Add, Queue!Promote, Queue!QueueTypeOK
  <1>2. wait' \in Seq(Jobs) /\ InList(wait') = InList(wait) \cup {j}
    BY <1>1, AppendRange
  <1>3. Queue!QueueTypeOK'
    BY <1>1, <1>2 DEF Queue!QueueTypeOK
  <1>4. Queue!Live' = Queue!Live \cup {j}
    BY <1>1, <1>2 DEF Queue!Live, Queue!Waiting, Queue!Running, InList
  <1> QED
    BY <1>1, <1>3, <1>4

\* The same for taking a job.
LEMMA TakeMoves ==
  ASSUME Queue!QueueTypeOK, NEW w \in Workers, Queue!Take(w)
  PROVE  /\ Queue!QueueTypeOK'
         /\ Head(wait) \in Jobs
         /\ Queue!Live' = Queue!Live
         /\ Head(wait) \in Queue!Live
         /\ active[w] = NoJob
         /\ active' = [active EXCEPT ![w] = Head(wait)]
  <1>1. /\ wait \in Seq(Jobs) /\ wait # <<>>
        /\ wait' = Tail(wait)
        /\ active \in [Workers -> Jobs \cup {NoJob}]
        /\ active[w] = NoJob
        /\ active' = [active EXCEPT ![w] = Head(wait)]
        /\ UNCHANGED <<delayed, failed, completed, attempts, stalls>>
    BY DEF Queue!Take, Queue!QueueTypeOK
  <1>2. /\ wait' \in Seq(Jobs)
        /\ Head(wait) \in Jobs
        /\ InList(wait) = InList(wait') \cup {Head(wait)}
    BY <1>1, TailRange
  <1>3. Queue!QueueTypeOK'
    BY <1>1, <1>2 DEF Queue!QueueTypeOK
  <1>4. Head(wait) # NoJob
    BY <1>2, IdsAssumption DEF Jobs
  <1>5. Queue!Running' = Queue!Running \cup {Head(wait)}
    <2>1. \A v \in Workers : active'[v] = IF v = w THEN Head(wait) ELSE active[v]
      BY <1>1
    <2> QED
      BY <2>1, <1>1, <1>4 DEF Queue!Running
  <1>6. Queue!Live' = Queue!Live /\ Head(wait) \in Queue!Live
    BY <1>1, <1>2, <1>5 DEF Queue!Live, Queue!Waiting, InList
  <1> QED
    BY <1>1, <1>2, <1>3, <1>6

\* The same for giving a job back, whatever becomes of it.
LEMMA SettleMoves ==
  ASSUME Queue!QueueTypeOK, NEW w \in Workers,
         Queue!Succeed(w) \/ Queue!Reject(w) \/ Queue!Stall(w)
  PROVE  /\ Queue!QueueTypeOK'
         /\ Queue!Live' \subseteq Queue!Live
         /\ active[w] \in Jobs
         /\ active' = [active EXCEPT ![w] = NoJob]
  <1>1. /\ wait \in Seq(Jobs)
        /\ active \in [Workers -> Jobs \cup {NoJob}]
        /\ active[w] \in Jobs
        /\ active' = [active EXCEPT ![w] = NoJob]
    BY DEF Queue!Succeed, Queue!Reject, Queue!Stall, Queue!QueueTypeOK
  <1>2. Queue!Running' \subseteq Queue!Running /\ active[w] \in Queue!Running
    <2>1. \A v \in Workers : active'[v] = IF v = w THEN NoJob ELSE active[v]
      BY <1>1
    <2>2. active[w] # NoJob
      BY <1>1, IdsAssumption DEF Jobs
    <2> QED
      BY <2>1, <2>2 DEF Queue!Running
  <1>3. /\ delayed' \subseteq delayed \cup {active[w]}
        /\ wait' = wait \/ wait' = <<active[w]>> \o wait
        /\ failed' \subseteq failed \cup {active[w]}
        /\ completed' \subseteq completed \cup {active[w]}
        /\ attempts' \in [Jobs -> Nat]
        /\ stalls' \in [Jobs -> Nat]
    <2>1. CASE Queue!Succeed(w)
      BY <2>1 DEF Queue!Succeed, Queue!QueueTypeOK
    <2>2. CASE Queue!Reject(w)
      BY <2>2, <1>1 DEF Queue!Reject, Queue!QueueTypeOK
    <2>3. CASE Queue!Stall(w)
      BY <2>3, <1>1 DEF Queue!Stall, Queue!QueueTypeOK
    <2> QED
      BY <2>1, <2>2, <2>3
  <1>4. wait' \in Seq(Jobs) /\ InList(wait') \subseteq InList(wait) \cup {active[w]}
    <2>1. CASE wait' = wait
      BY <2>1, <1>1
    <2>2. CASE wait' = <<active[w]>> \o wait
      BY <2>2, <1>1, PushRange
    <2> QED
      BY <1>3, <2>1, <2>2
  <1>5. Queue!QueueTypeOK'
    BY <1>1, <1>3, <1>4 DEF Queue!QueueTypeOK
  <1>6. Queue!Live' \subseteq Queue!Live
    BY <1>2, <1>3, <1>4 DEF Queue!Live, Queue!Waiting, InList
  <1> QED
    BY <1>1, <1>5, <1>6

----------------------------------------------------------------------------
(* The bookkeeping *)

\* At first there is no job and no row.
LEMMA BooksInit == Init => Books
  <1> SUFFICES ASSUME Init PROVE Books
    OBVIOUS
  <1>1. TypeOK
    BY KeyOfAssumption DEF Init, TypeOK, Queue!QueueInit, Queue!QueueTypeOK,
       RowStatus, NoRow, ReqStates, WorkStates
  <1>2. emitted \cup Queue!Live = {}
    BY DEF Init, Queue!QueueInit, Queue!Live, Queue!Waiting, Queue!Running
  <1> QED
    BY <1>1, <1>2 DEF Init, Queue!QueueInit, Books, Accepted, Dispatched, PathsFit

\* The job a worker holds is live.
LEMMA ActiveLive ==
  ASSUME NEW w \in Workers, active[w] # NoJob
  PROVE  active[w] \in Queue!Live
  BY DEF Queue!Live, Queue!Running

\* The lookup of an upload writes nothing.
LEMMA UploadBeginBooks ==
  ASSUME Books, NEW r \in Requests, NEW fs \in SUBSET Files, UploadBegin(r, fs)
  PROVE  Books'
  <1> USE DEF Books, db, queue
  <1>1. UNCHANGED <<filepath, blobs, work, wait, delayed, active, failed, completed, attempts, stalls>>
    BY DEF UploadBegin
  <1>2. TypeOK'
    <2>1. req' \in [Requests -> [pc : ReqStates, todo : SUBSET Files,
                              file : Files \cup {NoFile}, path : Keys \cup {NoPath}]]
      <3> DEFINE new == [req[r] EXCEPT !.pc = "creating", !.todo = fs]
      <3>1. req' = [req EXCEPT ![r] = new]
        BY DEF UploadBegin, TypeOK
      <3>2. new \in [pc : ReqStates, todo : SUBSET Files,
                    file : Files \cup {NoFile}, path : Keys \cup {NoPath}]
        BY DEF TypeOK, ReqStates
      <3> QED
        BY <3>1, <3>2 DEF TypeOK
    <2>2. /\ tasks' = tasks
          /\ status' \in [Files -> RowStatus \cup NoRow]
          /\ blobs' = blobs
          /\ emitted' \subseteq Jobs
      BY DEF UploadBegin, TypeOK, RowStatus, NoRow, Jobs
    <2> QED
      BY <2>1, <2>2, <1>1 DEF TypeOK, Queue!QueueTypeOK
  <1>3. Queue!Live' = Queue!Live
    BY <1>1 DEF Queue!Live, Queue!Waiting, Queue!Running
  <1>4. Accepted'
    BY <1>1, <1>2, <1>3, IdsAssumption DEF UploadBegin, TypeOK, Accepted, PathsFit
  <1>5. Dispatched'
    <2>1. ASSUME NEW w \in Workers, work[w] = "removing"
          PROVE  active[w] \in Requests /\ req[active[w]].pc = "queued"
      BY <2>1, ActiveLive, IdsAssumption DEF Dispatched, Accepted
    <2> QED
      BY <1>1, <2>1 DEF UploadBegin, Dispatched, TypeOK
  <1>6. PathsFit'
    BY <1>1 DEF PathsFit
  <1> QED
    BY <1>2, <1>4, <1>5, <1>6

\* The insert of a row and its event: the job it will become is accepted now.
LEMMA UploadCreateBooks ==
  ASSUME Books, NEW r \in Requests, NEW f \in Files, UploadCreate(r, f)
  PROVE  Books'
  <1> USE DEF Books, db, queue
  <1>1. UNCHANGED <<filepath, blobs, work, wait, delayed, active, failed, completed, attempts, stalls>>
    BY DEF UploadCreate
  <1>2. TypeOK'
    <2>1. req' \in [Requests -> [pc : ReqStates, todo : SUBSET Files,
                              file : Files \cup {NoFile}, path : Keys \cup {NoPath}]]
      <3>1. req \in [Requests -> Request] /\ {"error", "creating", "uploaded"} \subseteq ReqStates
        BY DEF TypeOK, Request, ReqStates
      <3>2. req[r].pc = "creating"
        BY DEF UploadCreate
      <3>6. \/ req' = [req EXCEPT ![r].pc = "error", ![r].todo = {}]
            \/ req' = [req EXCEPT ![r].pc = IF req[r].todo = {f} THEN "uploaded" ELSE req[r].pc,
                                  ![r].todo = req[r].todo \ {f}]
        BY DEF UploadCreate
      <3>3. req[r].todo \subseteq Files
        BY <3>1 DEF Request
      <3>4. /\ {} \in SUBSET Files /\ req[r].todo \ {f} \in SUBSET Files
            /\ (IF req[r].todo = {f} THEN "uploaded" ELSE req[r].pc) \in ReqStates
        BY <3>1, <3>2, <3>3
      <3>5. CASE req' = [req EXCEPT ![r].pc = "error", ![r].todo = {}]
        <4>1. req' \in [Requests -> Request]
          BY ONLY <3>1, <3>4, <3>5, EditRequest
        <4> QED
          BY <4>1 DEF Request
      <3>7. CASE req' = [req EXCEPT ![r].pc = IF req[r].todo = {f} THEN "uploaded" ELSE req[r].pc,
                                    ![r].todo = req[r].todo \ {f}]
        <4> DEFINE p == IF req[r].todo = {f} THEN "uploaded" ELSE req[r].pc
        <4> DEFINE fs == req[r].todo \ {f}
        <4>2. p \in ReqStates /\ req' = [req EXCEPT ![r].pc = p, ![r].todo = fs]
          BY ONLY <3>4, <3>7
        <4>3. fs \in SUBSET Files
          BY ONLY <3>4
        <4>4. req \in [Requests -> Request]
          BY ONLY <3>1
        <4> HIDE DEF p, fs
        <4>1. req' \in [Requests -> Request]
          BY ONLY <4>2, <4>3, <4>4, EditRequest
        <4> QED
          BY <4>1 DEF Request
      <3> QED
        BY <3>5, <3>6, <3>7
    <2>2. /\ tasks' = tasks
          /\ status' \in [Files -> RowStatus \cup NoRow]
          /\ blobs' = blobs
          /\ emitted' \subseteq Jobs
      BY DEF UploadCreate, TypeOK, RowStatus, NoRow, Jobs
    <2> QED
      BY <2>1, <2>2, <1>1 DEF TypeOK, Queue!QueueTypeOK
  <1>3. Queue!Live' = Queue!Live
    BY <1>1 DEF Queue!Live, Queue!Waiting, Queue!Running
  <1>4. Accepted'
    BY <1>1, <1>2, <1>3, IdsAssumption DEF UploadCreate, TypeOK, Accepted, PathsFit
  <1>5. Dispatched'
    <2>1. ASSUME NEW w \in Workers, work[w] = "removing"
          PROVE  active[w] \in Requests /\ req[active[w]].pc = "queued"
      BY <2>1, ActiveLive, IdsAssumption DEF Dispatched, Accepted
    <2> QED
      BY <1>1, <2>1 DEF UploadCreate, Dispatched, TypeOK
  <1>6. PathsFit'
    BY <1>1 DEF PathsFit
  <1> QED
    BY <1>2, <1>4, <1>5, <1>6

\* The lookup of a deletion keeps the path it read, empty or the file's own key.
LEMMA DeleteBeginBooks ==
  ASSUME Books, NEW r \in Requests, NEW f \in Files, DeleteBegin(r, f)
  PROVE  Books'
  <1> USE DEF Books, db, queue
  <1>1. UNCHANGED <<filepath, blobs, work, wait, delayed, active, failed, completed, attempts, stalls>>
    BY DEF DeleteBegin
  <1>2. TypeOK'
    <2>1. req' \in [Requests -> [pc : ReqStates, todo : SUBSET Files,
                              file : Files \cup {NoFile}, path : Keys \cup {NoPath}]]
      <3> DEFINE new == [req[r] EXCEPT !.pc = "marking", !.file = f,
                                       !.path = filepath[f]]
      <3>1. req' = [req EXCEPT ![r] = new]
        BY DEF DeleteBegin, TypeOK
      <3>2. new \in [pc : ReqStates, todo : SUBSET Files,
                    file : Files \cup {NoFile}, path : Keys \cup {NoPath}]
        BY DEF TypeOK, ReqStates
      <3> QED
        BY <3>1, <3>2 DEF TypeOK
    <2>2. /\ tasks' = tasks
          /\ status' \in [Files -> RowStatus \cup NoRow]
          /\ blobs' = blobs
          /\ emitted' \subseteq Jobs
      BY DEF DeleteBegin, TypeOK, RowStatus, NoRow, Jobs
    <2> QED
      BY <2>1, <2>2, <1>1 DEF TypeOK, Queue!QueueTypeOK
  <1>3. Queue!Live' = Queue!Live
    BY <1>1 DEF Queue!Live, Queue!Waiting, Queue!Running
  <1>4. Accepted'
    BY <1>1, <1>2, <1>3, IdsAssumption DEF DeleteBegin, TypeOK, Accepted, PathsFit
  <1>5. Dispatched'
    <2>1. ASSUME NEW w \in Workers, work[w] = "removing"
          PROVE  active[w] \in Requests /\ req[active[w]].pc = "queued"
      BY <2>1, ActiveLive, IdsAssumption DEF Dispatched, Accepted
    <2> QED
      BY <1>1, <2>1 DEF DeleteBegin, Dispatched, TypeOK
  <1>6. PathsFit'
    BY <1>1 DEF PathsFit
  <1> QED
    BY <1>2, <1>4, <1>5, <1>6

\* Marking a row DELETING accepts the job that carries the path read before.
LEMMA DeleteMarkBooks ==
  ASSUME Books, NEW r \in Requests, DeleteMark(r)
  PROVE  Books'
  <1> USE DEF Books, db, queue
  <1>1. UNCHANGED <<filepath, blobs, work, wait, delayed, active, failed, completed, attempts, stalls>>
    BY DEF DeleteMark
  <1>2. TypeOK'
    <2>1. req' \in [Requests -> [pc : ReqStates, todo : SUBSET Files,
                              file : Files \cup {NoFile}, path : Keys \cup {NoPath}]]
      BY DEF DeleteMark, TypeOK, ReqStates
    <2>2. /\ tasks' = tasks
          /\ status' \in [Files -> RowStatus \cup NoRow]
          /\ blobs' = blobs
          /\ emitted' \subseteq Jobs
      BY DEF DeleteMark, TypeOK, RowStatus, NoRow, Jobs
    <2> QED
      BY <2>1, <2>2, <1>1 DEF TypeOK, Queue!QueueTypeOK
  <1>3. Queue!Live' = Queue!Live
    BY <1>1 DEF Queue!Live, Queue!Waiting, Queue!Running
  <1>4. Accepted'
    BY <1>1, <1>2, <1>3, IdsAssumption DEF DeleteMark, TypeOK, Accepted, PathsFit
  <1>5. Dispatched'
    <2>1. ASSUME NEW w \in Workers, work[w] = "removing"
          PROVE  active[w] \in Requests /\ req[active[w]].pc = "queued"
      BY <2>1, ActiveLive, IdsAssumption DEF Dispatched, Accepted
    <2> QED
      BY <1>1, <2>1 DEF DeleteMark, Dispatched, TypeOK
  <1>6. PathsFit'
    BY <1>1 DEF PathsFit
  <1> QED
    BY <1>2, <1>4, <1>5, <1>6

\* A request that dies leaves what it wrote.
LEMMA RequestDiesBooks ==
  ASSUME Books, NEW r \in Requests, RequestDies(r)
  PROVE  Books'
  <1> USE DEF Books, db, queue
  <1>1. UNCHANGED <<filepath, blobs, work, wait, delayed, active, failed, completed, attempts, stalls>>
    BY DEF RequestDies
  <1>2. TypeOK'
    <2>1. req' \in [Requests -> [pc : ReqStates, todo : SUBSET Files,
                              file : Files \cup {NoFile}, path : Keys \cup {NoPath}]]
      <3>1. req \in [Requests -> Request] /\ "error" \in ReqStates
        BY DEF TypeOK, Request, ReqStates
      <3>2. req' = [req EXCEPT ![r].pc = "error", ![r].todo = {}]
        BY DEF RequestDies
      <3>3. {} \in SUBSET Files
        OBVIOUS
      <3>4. req' \in [Requests -> Request]
        BY ONLY <3>1, <3>2, <3>3, EditRequest
      <3> QED
        BY <3>4 DEF Request
    <2>2. /\ tasks' = tasks
          /\ status' \in [Files -> RowStatus \cup NoRow]
          /\ blobs' = blobs
          /\ emitted' \subseteq Jobs
      BY DEF RequestDies, TypeOK, RowStatus, NoRow, Jobs
    <2> QED
      BY <2>1, <2>2, <1>1 DEF TypeOK, Queue!QueueTypeOK
  <1>3. Queue!Live' = Queue!Live
    BY <1>1 DEF Queue!Live, Queue!Waiting, Queue!Running
  <1>4. Accepted'
    BY <1>1, <1>2, <1>3, IdsAssumption DEF RequestDies, TypeOK, Accepted, PathsFit
  <1>5. Dispatched'
    <2>1. ASSUME NEW w \in Workers, work[w] = "removing"
          PROVE  active[w] \in Requests /\ req[active[w]].pc = "queued"
      BY <2>1, ActiveLive, IdsAssumption DEF Dispatched, Accepted
    <2> QED
      BY <1>1, <2>1 DEF RequestDies, Dispatched, TypeOK
  <1>6. PathsFit'
    BY <1>1 DEF PathsFit
  <1> QED
    BY <1>2, <1>4, <1>5, <1>6

\* A worker's calls to the bucket and the database.
LEMMA WorkerBooks ==
  ASSUME Books, NEW w \in Workers, UploadStep(w) \/ DeleteStep(w)
  PROVE  Books'
  <1> USE DEF Books, db, queue
  <1>1. UNCHANGED <<tasks, req, emitted, wait, delayed, active, failed, completed,
                    attempts, stalls>>
    BY DEF UploadStep, DeleteStep, StoreBlob, StoreFails, RecordStored, RecordFailed,
           RemoveBlob, RemoveFails, DropRow, MarkDeleteFailed
  <1>2. \E to \in WorkStates \ {"idle", "storing", "removing"} :
          /\ work' = [work EXCEPT ![w] = to]
          /\ work[w] \in WorkStates \ {"idle"}
          /\ to \in {"recording", "failing"} => work[w] \in {"storing", "recording"}
          /\ to \in {"dropping", "markingFailed"} => work[w] \in {"removing", "dropping"}
    BY DEF UploadStep, DeleteStep, StoreBlob, StoreFails, RecordStored, RecordFailed,
           RemoveBlob, RemoveFails, DropRow, MarkDeleteFailed, WorkStates
  <1>3. status' \in [Files -> RowStatus \cup NoRow]
    BY DEF UploadStep, DeleteStep, StoreBlob, StoreFails, RecordStored, RecordFailed,
           RemoveBlob, RemoveFails, DropRow, MarkDeleteFailed, TypeOK, RowStatus, NoRow
  <1>4. \/ filepath' = filepath
        \/ active[w] \in Files /\ filepath' = [filepath EXCEPT ![active[w]] = KeyOf[active[w]]]
    BY DEF UploadStep, DeleteStep, StoreBlob, StoreFails, RecordStored, RecordFailed,
           RemoveBlob, RemoveFails, DropRow, MarkDeleteFailed, Dispatched
  <1>5. \/ blobs' = blobs
        \/ active[w] \in Files /\ blobs' = [blobs EXCEPT ![KeyOf[active[w]]] = active[w]]
        \/ blobs' = [blobs EXCEPT ![PathOf(active[w])] = NoFile]
    BY DEF UploadStep, DeleteStep, StoreBlob, StoreFails, RecordStored, RecordFailed,
           RemoveBlob, RemoveFails, DropRow, MarkDeleteFailed, Dispatched
  <1>6. TypeOK'
    <2>1. work' \in [Workers -> WorkStates]
      BY <1>2 DEF TypeOK
    <2>2. filepath' \in [Files -> Keys \cup {NoPath}]
      BY <1>4, KeyOfAssumption DEF TypeOK
    <2>3. blobs' \in [Keys -> Files \cup {NoFile}]
      BY <1>5 DEF TypeOK
    <2> QED
      BY <1>1, <1>3, <2>1, <2>2, <2>3 DEF TypeOK, Queue!QueueTypeOK
  <1>7. Queue!Live' = Queue!Live
    BY <1>1 DEF Queue!Live, Queue!Waiting, Queue!Running
  <1>8. Accepted'
    BY <1>1, <1>7 DEF Accepted
  <1>9. Dispatched'
    BY <1>1, <1>2 DEF Dispatched, TypeOK
  <1>10. PathsFit'
    BY <1>4 DEF PathsFit, TypeOK
  <1> QED
    BY <1>6, <1>8, <1>9, <1>10

\* The cascade removes rows and touches no job.
LEMMA DeleteTaskBooks ==
  ASSUME Books, NEW t \in Tasks, DeleteTask(t)
  PROVE  Books'
  <1> USE DEF Books, queue
  <1>1. UNCHANGED <<filepath, blobs, req, emitted, work, wait, delayed, active, failed,
                    completed, attempts, stalls>>
    BY DEF DeleteTask
  <1>2. TypeOK'
    BY <1>1 DEF DeleteTask, TypeOK, NoRow, Queue!QueueTypeOK
  <1>3. Queue!Live' = Queue!Live
    BY <1>1 DEF Queue!Live, Queue!Waiting, Queue!Running
  <1> QED
    BY <1>1, <1>2, <1>3 DEF Accepted, Dispatched, PathsFit

\* The listener's steps and Bull's timer.
LEMMA ListenerBooks ==
  ASSUME Books, NEW j \in Jobs, Enqueue(j) \/ LoseEvent(j) \/ Retry(j)
  PROVE  Books'
  <1> USE DEF Books, db, queue
  <1>1. UNCHANGED <<tasks, status, filepath, blobs, req, work, active>>
    BY DEF Enqueue, LoseEvent, Retry, Queue!Add, Queue!Promote
  <1>2. emitted' \subseteq emitted
    BY DEF Enqueue, LoseEvent, Retry
  <1>3. Queue!QueueTypeOK'
    BY JobMoves DEF Enqueue, LoseEvent, Retry, TypeOK, Queue!QueueTypeOK
  <1>4. emitted' \cup Queue!Live' \subseteq emitted \cup Queue!Live
    <2>1. CASE Enqueue(j)
      BY <2>1, JobMoves DEF Enqueue, TypeOK
    <2>2. CASE LoseEvent(j)
      BY <2>2 DEF LoseEvent, Queue!Live, Queue!Waiting, Queue!Running
    <2>3. CASE Retry(j)
      <3>1. j \in Queue!Live
        BY <2>3 DEF Retry, Queue!Promote, Queue!Live
      <3> QED
        BY <2>3, <3>1, JobMoves DEF Retry, TypeOK
    <2> QED
      BY <2>1, <2>2, <2>3
  <1> QED
    BY <1>1, <1>2, <1>3, <1>4 DEF TypeOK, Accepted, Dispatched, PathsFit

\* A worker takes a job that was dispatched, at the step its kind begins with.
LEMMA StartJobBooks ==
  ASSUME Books, NEW w \in Workers, StartJob(w)
  PROVE  Books'
  <1> USE DEF Books, db
  <1> DEFINE j == Head(wait)
  <1>1. /\ UNCHANGED <<tasks, status, filepath, blobs, req, emitted>>
        /\ work' = [work EXCEPT ![w] = IF j \in Files THEN "storing"
                                       ELSE IF PathOf(j) = NoPath THEN "markingFailed"
                                       ELSE "removing"]
    BY DEF StartJob
  <1>2. /\ Queue!QueueTypeOK'
        /\ j \in Jobs
        /\ Queue!Live' = Queue!Live
        /\ active' = [active EXCEPT ![w] = j]
    BY TakeMoves DEF StartJob, TypeOK
  <1> HIDE DEF j
  <1>3. TypeOK'
    BY <1>1, <1>2 DEF TypeOK, WorkStates
  <1>4. Dispatched'
    <2>1. active \in [Workers -> Jobs \cup {NoJob}] /\ work \in [Workers -> WorkStates]
      BY DEF TypeOK, Queue!QueueTypeOK
    <2>2. j # NoJob /\ (j \in Files \/ j \in Requests)
      BY <1>2, IdsAssumption DEF Jobs
    <2> QED
      BY <1>1, <1>2, <2>1, <2>2 DEF Dispatched, PathOf
  <1> QED
    BY <1>1, <1>2, <1>3, <1>4 DEF Accepted, PathsFit

\* Settling or losing a job frees the worker.
LEMMA EndJobBooks ==
  ASSUME Books, NEW w \in Workers, FinishJob(w) \/ WorkerDies(w)
  PROVE  Books'
  <1> USE DEF Books, db
  <1>1. /\ UNCHANGED <<tasks, status, filepath, blobs, req, emitted>>
        /\ work' = [work EXCEPT ![w] = "idle"]
    BY DEF FinishJob, WorkerDies
  <1>2. /\ Queue!QueueTypeOK'
        /\ Queue!Live' \subseteq Queue!Live
        /\ active' = [active EXCEPT ![w] = NoJob]
    BY SettleMoves DEF FinishJob, WorkerDies, TypeOK
  <1>3. TypeOK'
    BY <1>1, <1>2 DEF TypeOK, WorkStates
  <1>4. Dispatched'
    <2>1. active \in [Workers -> Jobs \cup {NoJob}] /\ work \in [Workers -> WorkStates]
      BY DEF TypeOK, Queue!QueueTypeOK
    <2> QED
      BY <1>1, <1>2, <2>1 DEF Dispatched
  <1> QED
    BY <1>1, <1>2, <1>3, <1>4 DEF Accepted, PathsFit

\* Every step preserves the bookkeeping.
LEMMA BooksNext == Books /\ [Next]_vars => Books'
  <1> SUFFICES ASSUME Books, [Next]_vars PROVE Books'
    OBVIOUS
  <1>1. ASSUME NEW r \in Requests, NEW fs \in SUBSET Files, UploadBegin(r, fs) PROVE Books'
    BY <1>1, UploadBeginBooks
  <1>2. ASSUME NEW r \in Requests, NEW f \in Files, UploadCreate(r, f) PROVE Books'
    BY <1>2, UploadCreateBooks
  <1>3. ASSUME NEW r \in Requests, NEW f \in Files, DeleteBegin(r, f) PROVE Books'
    BY <1>3, DeleteBeginBooks
  <1>4. ASSUME NEW r \in Requests, DeleteMark(r) PROVE Books'
    BY <1>4, DeleteMarkBooks
  <1>5. ASSUME NEW r \in Requests, RequestDies(r) PROVE Books'
    BY <1>5, RequestDiesBooks
  <1>6. ASSUME NEW t \in Tasks, DeleteTask(t) PROVE Books'
    BY <1>6, DeleteTaskBooks
  <1>7. ASSUME NEW j \in Jobs, Enqueue(j) \/ LoseEvent(j) \/ Retry(j) PROVE Books'
    BY <1>7, ListenerBooks
  <1>8. ASSUME NEW w \in Workers, StartJob(w) PROVE Books'
    BY <1>8, StartJobBooks
  <1>9. ASSUME NEW w \in Workers, UploadStep(w) \/ DeleteStep(w) PROVE Books'
    BY <1>9, WorkerBooks
  <1>10. ASSUME NEW w \in Workers, FinishJob(w) \/ WorkerDies(w) PROVE Books'
    BY <1>10, EndJobBooks
  <1>11. CASE UNCHANGED vars
    <2>1. Queue!Live' = Queue!Live
      BY <1>11 DEF vars, Queue!Live, Queue!Waiting, Queue!Running
    <2> QED
      BY <1>11, <2>1 DEF vars, Books, TypeOK, Queue!QueueTypeOK, Accepted, Dispatched, PathsFit
  <1> QED
    BY <1>1, <1>2, <1>3, <1>4, <1>5, <1>6, <1>7, <1>8, <1>9, <1>10, <1>11
       DEF Next, RequestStep

\* TypeOK and the bookkeeping hold in every reachable state of the pipeline.
THEOREM BooksKept == Spec => []Books
  BY BooksInit, BooksNext, PTL DEF Spec

\* The type invariant: whatever the order of requests, jobs, faults and crashes,
\* every row, blob, job and worker step stays in its type.
THEOREM TypeCorrect == Spec => []TypeOK
  <1>1. Books => TypeOK
    BY DEF Books
  <1> QED
    BY <1>1, BooksKept, PTL

----------------------------------------------------------------------------
(* No row is stuck *)

(***************************************************************************)
(* NoStuckRow is not inductive: a job in flight may have written its last  *)
(* status already, and then it no longer answers for a row that another    *)
(* request marked meanwhile.  The invariant counts only jobs that still    *)
(* owe the row a write.                                                    *)
(***************************************************************************)
Owed(j) ==
  \/ j \in emitted \cup Queue!Waiting \cup delayed
  \/ \E w \in Workers : active[w] = j /\ work[w] \notin {"done", "throwing"}

OwedRows ==
  \A f \in Files :
    /\ status[f] = "PENDING" => Owed(f)
    /\ status[f] = "DELETING" => \E r \in DeleteJobs(f) : Owed(r)

\* A job that is owed is dispatched, in the queue, or held by a worker.
LEMMA OwedIsInFlight ==
  ASSUME NEW j \in Jobs, Owed(j)
  PROVE  InFlight(j)
  BY IdsAssumption DEF Owed, InFlight, Queue!Live, Queue!Running, Jobs

\* Enough for a step to keep the invariant: debts and accepted deletions stay
\* and no status becomes PENDING or DELETING.
LEMMA OwedFrame ==
  ASSUME OwedRows,
         \A f \in Files : status'[f] \in {"PENDING", "DELETING"} => status'[f] = status[f],
         \A f \in Files : DeleteJobs(f) \subseteq DeleteJobs(f)',
         \A f \in Files : status'[f] = "PENDING" /\ Owed(f) => Owed(f)',
         \A f \in Files : \A r \in DeleteJobs(f) :
           status'[f] = "DELETING" /\ Owed(r) => Owed(r)'
  PROVE  OwedRows'
  BY DEF OwedRows

\* At first no row is PENDING or DELETING.
LEMMA OwedInit == Init => OwedRows
  BY DEF Init, OwedRows

\* A request that makes a row PENDING or DELETING emits the event of its job in the
\* same step.
LEMMA RequestOwed ==
  ASSUME Books, OwedRows, NEW r \in Requests, NEW f \in Files,
         NEW fs \in SUBSET Files, ~DbFails, ~DbAnswersLost, ~Crashes,
         \/ UploadBegin(r, fs) \/ UploadCreate(r, f) \/ DeleteBegin(r, f)
         \/ DeleteMark(r) \/ RequestDies(r)
  PROVE  OwedRows'
  <1> USE DEF db, queue
  <1>1. /\ UNCHANGED <<work, wait, delayed, active>>
        /\ emitted \subseteq emitted'
    BY DEF UploadBegin, UploadCreate, DeleteBegin, DeleteMark, RequestDies
  <1>2. \A j \in Jobs : Owed(j) => Owed(j)'
    BY <1>1 DEF Owed, Queue!Waiting
  <1>3. ASSUME NEW g \in Files PROVE DeleteJobs(g) \subseteq DeleteJobs(g)'
    <2>1. req \in [Requests -> [pc : ReqStates, todo : SUBSET Files,
                              file : Files \cup {NoFile}, path : Keys \cup {NoPath}]]
      BY DEF Books, TypeOK
    <2>2. req[r].pc \in {"idle", "creating", "marking"}
      BY DEF UploadBegin, UploadCreate, DeleteBegin, DeleteMark, RequestDies
    <2>3. \A q \in Requests \ {r} : req'[q] = req[q]
      BY <2>1 DEF UploadBegin, UploadCreate, DeleteBegin, DeleteMark, RequestDies
    <2> QED
      BY <2>2, <2>3 DEF DeleteJobs
  <1>4. CASE UploadCreate(r, f) /\ TaskOf[f] \in tasks
    <2>1. /\ status' = [status EXCEPT ![f] = "PENDING"] \/ status' = status
          /\ f \in emitted' \/ status' = status
      BY <1>4 DEF UploadCreate
    <2>2. status \in [Files -> RowStatus \cup NoRow]
      BY DEF Books, TypeOK
    <2>3. status' = [status EXCEPT ![f] = "PENDING"] => Owed(f)'
      BY <1>4 DEF UploadCreate, Owed
    <2> QED
      BY <1>2, <1>3, <2>1, <2>2, <2>3 DEF OwedRows, Jobs, DeleteJobs
  <1>5. CASE DeleteMark(r) /\ HasRow(req[r].file)
    <2> DEFINE g == req[r].file
    <2>1. /\ status' = [status EXCEPT ![g] = "DELETING"]
          /\ r \in emitted'
          /\ req' = [req EXCEPT ![r].pc = "queued"]
      BY <1>5 DEF DeleteMark
    <2>2. /\ status \in [Files -> RowStatus \cup NoRow]
          /\ req \in [Requests -> [pc : ReqStates, todo : SUBSET Files,
                           file : Files \cup {NoFile}, path : Keys \cup {NoPath}]]
      BY DEF Books, TypeOK
    <2>3. r \in DeleteJobs(g)' /\ Owed(r)'
      BY <2>1, <2>2 DEF DeleteJobs, Owed
    <2> QED
      BY <1>2, <1>3, <2>1, <2>2, <2>3 DEF OwedRows, Jobs, DeleteJobs
  <1>6. CASE status' = status
    BY <1>2, <1>3, <1>6, OwedFrame DEF Jobs, DeleteJobs
  <1>7. \/ UploadCreate(r, f) /\ TaskOf[f] \in tasks
        \/ DeleteMark(r) /\ HasRow(req[r].file)
        \/ status' = status
    BY DEF UploadBegin, UploadCreate, DeleteBegin, DeleteMark, RequestDies
  <1> QED
    BY <1>4, <1>5, <1>6, <1>7

\* A worker's write either leaves every debt or settles the one row its job
\* answers for.
LEMMA WorkerOwed ==
  ASSUME Books, OwedRows, NEW w \in Workers, ~DbFails, ~DbAnswersLost,
         UploadStep(w) \/ DeleteStep(w)
  PROVE  OwedRows'
  <1> USE DEF db, queue
  <1> DEFINE a == active[w]
  <1> DEFINE f0 == FileOf(a)
  <1>1. /\ status \in [Files -> RowStatus \cup NoRow]
        /\ work \in [Workers -> WorkStates]
    BY DEF Books, TypeOK
  <1>2. /\ UNCHANGED <<req, emitted, wait, delayed, active>>
        /\ \A v \in Workers \ {w} : work'[v] = work[v]
    BY <1>1 DEF UploadStep, DeleteStep, StoreBlob, StoreFails, RecordStored, RecordFailed,
       RemoveBlob, RemoveFails, DropRow, MarkDeleteFailed
  <1>3. \A g \in Files : DeleteJobs(g)' = DeleteJobs(g)
    BY <1>2 DEF DeleteJobs
  <1>4. \A j \in Jobs \ {a} : Owed(j) => Owed(j)'
    BY <1>2 DEF Owed, Queue!Waiting
  <1>5. a \in Files \/ a \in Requests
    BY DEF UploadStep, DeleteStep, StoreBlob, StoreFails, RecordStored, RecordFailed,
       RemoveBlob, RemoveFails, DropRow, MarkDeleteFailed, Books, Dispatched
  <1>6. \A g \in Files \ {f0} : a # g /\ a \notin DeleteJobs(g)
    BY <1>5, IdsAssumption DEF FileOf, DeleteJobs
  <1>7. CASE status' = status /\ work'[w] \notin {"done", "throwing"}
    <2>1. \A j \in Jobs : Owed(j) => Owed(j)'
      BY <1>2, <1>4, <1>7 DEF Owed
    <2> QED
      BY <1>3, <1>7, <2>1, OwedFrame DEF Jobs, DeleteJobs
  <1>8. CASE /\ f0 \in Files => status'[f0] \notin {"PENDING", "DELETING"}
             /\ \A g \in Files \ {f0} : status'[g] = status[g]
    <2>1. \A g \in Files : status'[g] \in {"PENDING", "DELETING"} => g # f0 /\ status'[g] = status[g]
      BY <1>8
    <2> QED
      BY <1>3, <1>4, <1>6, <2>1, OwedFrame DEF Jobs, DeleteJobs
  <1>9. CASE StoreBlob(w) \/ StoreFails(w) \/ RemoveBlob(w) \/ RemoveFails(w)
    BY <1>1, <1>7, <1>9 DEF StoreBlob, StoreFails, RemoveBlob, RemoveFails
  <1>10. CASE RecordStored(w) \/ RecordFailed(w)
    <2>1. f0 = a /\ a \in Files
      BY <1>10 DEF RecordStored, RecordFailed, Books, Dispatched, FileOf
    <2>2. /\ status'[f0] \notin {"PENDING", "DELETING"}
          /\ \A g \in Files \ {f0} : status'[g] = status[g]
      BY <1>1, <1>10, <2>1 DEF RecordStored, RecordFailed, HasRow, RowStatus, NoRow
    <2> QED
      BY <1>8, <2>2
  <1>11. CASE DropRow(w) \/ MarkDeleteFailed(w)
    <2>1. /\ f0 \in Files => status'[f0] \notin {"PENDING", "DELETING"}
          /\ \A g \in Files \ {f0} : status'[g] = status[g]
      BY <1>1, <1>11 DEF DropRow, MarkDeleteFailed, HasRow, RowStatus, NoRow
    <2> QED
      BY <1>8, <2>1
  <1> QED
    BY <1>9, <1>10, <1>11 DEF UploadStep, DeleteStep

\* A job that a worker takes is still owed.
LEMMA StartJobOwed ==
  ASSUME Books, OwedRows, NEW w \in Workers, StartJob(w)
  PROVE  OwedRows'
  <1> USE DEF db
  <1>1. /\ UNCHANGED <<status, req, emitted, delayed>>
        /\ wait # <<>> /\ wait' = Tail(wait)
        /\ active[w] = NoJob
        /\ active' = [active EXCEPT ![w] = Head(wait)]
        /\ \E to \in {"storing", "markingFailed", "removing"} : work' = [work EXCEPT ![w] = to]
    BY DEF StartJob, Queue!Take
  <1>2. /\ wait \in Seq(Jobs)
        /\ active \in [Workers -> Jobs \cup {NoJob}]
        /\ work \in [Workers -> WorkStates]
    BY DEF Books, TypeOK, Queue!QueueTypeOK
  <1>3. Queue!Waiting = Queue!Waiting' \cup {Head(wait)}
    <2>1. InList(wait) = InList(Tail(wait)) \cup {Head(wait)}
      BY <1>1, <1>2, TailRange
    <2> QED
      BY <1>1, <2>1 DEF Queue!Waiting, InList
  <1>4. active'[w] = Head(wait) /\ work'[w] \notin {"done", "throwing"}
    BY <1>1, <1>2
  <1>5. \A v \in Workers \ {w} : active'[v] = active[v] /\ work'[v] = work[v]
    BY <1>1, <1>2
  <1>6. NoJob \notin Jobs
    BY IdsAssumption DEF Jobs
  <1>7. \A j \in Jobs : Owed(j) => Owed(j)'
    BY <1>1, <1>3, <1>4, <1>5, <1>6 DEF Owed
  <1> QED
    BY <1>1, <1>7, OwedFrame DEF DeleteJobs, Jobs

\* A job settles only after its row has left PENDING and DELETING, or goes back to be
\* retried.
LEMMA FinishJobOwed ==
  ASSUME Books, OwedRows, NEW w \in Workers, FinishJob(w)
  PROVE  OwedRows'
  <1> USE DEF db
  <1>1. /\ UNCHANGED <<status, req, emitted, wait>>
        /\ delayed \subseteq delayed'
        /\ active' = [active EXCEPT ![w] = NoJob]
        /\ work' = [work EXCEPT ![w] = "idle"]
        /\ work[w] \in {"done", "throwing"}
    BY DEF FinishJob, Queue!Succeed, Queue!Reject
  <1>2. /\ active \in [Workers -> Jobs \cup {NoJob}]
        /\ work \in [Workers -> WorkStates]
    BY DEF Books, TypeOK, Queue!QueueTypeOK
  <1>3. \A v \in Workers \ {w} : active'[v] = active[v] /\ work'[v] = work[v]
    BY <1>1, <1>2
  <1>4. \A j \in Jobs : Owed(j) => Owed(j)'
    BY <1>1, <1>3 DEF Owed, Queue!Waiting
  <1> QED
    BY <1>1, <1>4, OwedFrame DEF DeleteJobs, Jobs

\* The listener and the retry hand an owed job on.
LEMMA ListenerOwed ==
  ASSUME Books, OwedRows, NEW j \in Jobs, Enqueue(j) \/ Retry(j)
  PROVE  OwedRows'
  <1> USE DEF db
  <1>1. /\ UNCHANGED <<status, req, active, work>>
        /\ emitted \subseteq emitted' \cup {j}
        /\ delayed \subseteq delayed' \cup {j}
        /\ wait' = Append(wait, j)
    BY DEF Enqueue, Retry, Queue!Add, Queue!Promote
  <1>2. wait \in Seq(Jobs)
    BY DEF Books, TypeOK, Queue!QueueTypeOK
  <1>3. Queue!Waiting' = Queue!Waiting \cup {j}
    BY <1>1, <1>2, AppendRange DEF Queue!Waiting, InList
  <1>4. \A i \in Jobs : Owed(i) => Owed(i)'
    BY <1>1, <1>3 DEF Owed
  <1> QED
    BY <1>1, <1>4, OwedFrame DEF DeleteJobs, Jobs

\* A row that the cascade removed is owed nothing.
LEMMA DeleteTaskOwed ==
  ASSUME Books, OwedRows, NEW t \in Tasks, DeleteTask(t)
  PROVE  OwedRows'
  <1> USE DEF queue
  <1>1. /\ UNCHANGED <<req, emitted, work, wait, delayed, active>>
        /\ \A f \in Files : status'[f] \in {status[f], "removed"}
    BY DEF DeleteTask
  <1>2. \A j \in Jobs : Owed(j) => Owed(j)'
    BY <1>1 DEF Owed, Queue!Waiting
  <1> QED
    BY <1>1, <1>2, OwedFrame DEF DeleteJobs, Jobs

\* Without crashes and with a database that answers, every step keeps each waiting row
\* its job.
LEMMA OwedNext ==
  ASSUME Books, OwedRows, [Next]_vars, ~DbFails, ~DbAnswersLost, ~Crashes
  PROVE  OwedRows'
  <1>1. ASSUME NEW r \in Requests, NEW fs \in SUBSET Files, UploadBegin(r, fs) PROVE OwedRows'
    <2>1. CASE fs = {}
      BY <1>1, <2>1 DEF UploadBegin
    <2>2. CASE fs # {}
      <3>1. PICK f \in fs : f \in Files
        BY <2>2
      <3> QED
        BY <1>1, <3>1, RequestOwed
    <2> QED
      BY <2>1, <2>2
  <1>2. ASSUME NEW r \in Requests, NEW f \in Files, UploadCreate(r, f) PROVE OwedRows'
    BY <1>2, RequestOwed
  <1>3. ASSUME NEW r \in Requests, NEW f \in Files, DeleteBegin(r, f) PROVE OwedRows'
    BY <1>3, RequestOwed
  <1>4. ASSUME NEW r \in Requests, DeleteMark(r) PROVE OwedRows'
    <2>1. req[r].file \in Files
      BY <1>4 DEF DeleteMark, Books, Accepted
    <2> QED
      BY <1>4, <2>1, RequestOwed
  <1>5. ASSUME NEW t \in Tasks, DeleteTask(t) PROVE OwedRows'
    BY <1>5, DeleteTaskOwed
  <1>6. ASSUME NEW j \in Jobs, Enqueue(j) \/ Retry(j) PROVE OwedRows'
    BY <1>6, ListenerOwed
  <1>7. ASSUME NEW w \in Workers, StartJob(w) PROVE OwedRows'
    BY <1>7, StartJobOwed
  <1>8. ASSUME NEW w \in Workers, UploadStep(w) \/ DeleteStep(w) PROVE OwedRows'
    BY <1>8, WorkerOwed
  <1>9. ASSUME NEW w \in Workers, FinishJob(w) PROVE OwedRows'
    BY <1>9, FinishJobOwed
  <1>10. CASE UNCHANGED vars
    <2>1. \A j \in Jobs : Owed(j) => Owed(j)'
      BY <1>10 DEF vars, Owed, Queue!Waiting
    <2> QED
      BY <1>10, <2>1, OwedFrame DEF vars, DeleteJobs, Jobs
  <1> QED
    BY <1>1, <1>2, <1>3, <1>4, <1>5, <1>6, <1>7, <1>8, <1>9, <1>10
       DEF Next, RequestStep, RequestDies, LoseEvent, WorkerDies

\* NoStuckRow: when processes and the database stay up, a PENDING or DELETING
\* row always has a job under way for it, for any number of files, requests,
\* workers and attempts and whatever the bucket answers.
THEOREM NoStuckRowHolds == Spec => []NoStuckRow
  <1> DEFINE Inv == ~DbFails /\ ~DbAnswersLost /\ ~Crashes => OwedRows
  <1>1. Init => Inv
    BY OwedInit
  <1>2. Books /\ Inv /\ [Next]_vars => Inv'
    BY OwedNext
  <1>3. Inv => NoStuckRow
    BY OwedIsInFlight DEF OwedRows, NoStuckRow, DeleteJobs, Jobs
  <1> QED
    BY <1>1, <1>2, <1>3, BooksKept, PTL DEF Spec

----------------------------------------------------------------------------
(* A stored file keeps its bytes *)

(***************************************************************************)
(* Why OwnBytes holds: a path is recorded only after the put of the same   *)
(* job, nobody else writes under that key when names differ, and only the  *)
(* job of an accepted deletion removes what is there.  Crashes do not      *)
(* matter: a redelivered upload puts the same bytes again.                 *)
(***************************************************************************)
Kept(f) == DeleteJobs(f) = {} => blobs[KeyOf[f]] = f

Recording(f) == \E w \in Workers : work[w] = "recording" /\ active[w] = f

Bytes ==
  \A f \in Files :
    /\ status[f] = "COMPLETED" => filepath[f] # NoPath
    /\ filepath[f] # NoPath \/ Recording(f) => Kept(f)

\* Enough for a step: no new COMPLETED, no new path, no new recording worker, and
\* the bytes stay or a deletion was accepted.
LEMMA BytesFrame ==
  ASSUME Bytes,
         \A f \in Files :
           /\ status'[f] = "COMPLETED" => status[f] = "COMPLETED"
           /\ filepath'[f] = filepath[f]
           /\ Recording(f)' => Recording(f)
           /\ Kept(f) => Kept(f)'
  PROVE  Bytes'
  BY DEF Bytes

\* What a request asked for when its deletion was accepted stays as it was.
LEMMA AcceptedStays ==
  ASSUME Books, [Next]_vars, NEW r \in Requests, req[r].pc = "queued"
  PROVE  req'[r] = req[r]
  <1> SUFFICES ASSUME req'[r] # req[r]
               PROVE  req[r].pc # "queued"
    OBVIOUS
  <1>0. req \in [Requests -> [pc : ReqStates, todo : SUBSET Files,
                            file : Files \cup {NoFile}, path : Keys \cup {NoPath}]]
    BY DEF Books, TypeOK
  <1>1. CASE UNCHANGED req
    BY <1>1
  <1>2. ASSUME NEW q \in Requests, NEW fs \in SUBSET Files, UploadBegin(q, fs)
        PROVE  req[r].pc # "queued"
    BY <1>0, <1>2 DEF UploadBegin
  <1>3. ASSUME NEW q \in Requests, NEW g \in Files, UploadCreate(q, g)
        PROVE  req[r].pc # "queued"
    BY <1>0, <1>3 DEF UploadCreate
  <1>4. ASSUME NEW q \in Requests, NEW g \in Files, DeleteBegin(q, g)
        PROVE  req[r].pc # "queued"
    BY <1>0, <1>4 DEF DeleteBegin
  <1>5. ASSUME NEW q \in Requests, DeleteMark(q)
        PROVE  req[r].pc # "queued"
    BY <1>0, <1>5 DEF DeleteMark
  <1>6. ASSUME NEW q \in Requests, RequestDies(q)
        PROVE  req[r].pc # "queued"
    BY <1>0, <1>6 DEF RequestDies
  <1>7. \/ UNCHANGED req
        \/ \E q \in Requests :
             \/ \E fs \in SUBSET Files : UploadBegin(q, fs)
             \/ \E g \in Files : UploadCreate(q, g) \/ DeleteBegin(q, g)
             \/ DeleteMark(q) \/ RequestDies(q)
    BY DEF Next, vars, RequestStep, UploadStep, DeleteStep, DeleteTask, Enqueue, LoseEvent, Retry,
       StartJob, FinishJob, WorkerDies, StoreBlob, StoreFails, RecordStored,
       RecordFailed, RemoveBlob, RemoveFails, DropRow, MarkDeleteFailed
  <1> QED
    BY <1>1, <1>2, <1>3, <1>4, <1>5, <1>6, <1>7

\* An accepted deletion is never forgotten.
LEMMA AcceptedGrow ==
  ASSUME Books, [Next]_vars, NEW f \in Files
  PROVE  DeleteJobs(f) \subseteq DeleteJobs(f)'
  BY AcceptedStays DEF DeleteJobs

\* Storing puts a file's own bytes under its key, which no other file has.
LEMMA StoreBytes ==
  ASSUME Books, Bytes, UniqueKeys, NEW w \in Workers, [Next]_vars,
         StoreBlob(w) \/ StoreFails(w)
  PROVE  Bytes'
  <1> USE DEF db, queue
  <1> DEFINE a == active[w]
  <1>1. /\ a \in Files
        /\ UNCHANGED <<status, filepath, req, active>>
        /\ blobs' = [blobs EXCEPT ![KeyOf[a]] = a] \/ blobs' = blobs
        /\ work' = [work EXCEPT ![w] = "recording"] => blobs' = [blobs EXCEPT ![KeyOf[a]] = a]
        /\ \E to \in {"recording", "failing"} : work' = [work EXCEPT ![w] = to]
    <2>1. work \in [Workers -> WorkStates]
      BY DEF Books, TypeOK
    <2> QED
      BY <2>1 DEF StoreBlob, StoreFails, Books, Dispatched
  <1>2. /\ blobs \in [Keys -> Files \cup {NoFile}]
        /\ work \in [Workers -> WorkStates]
        /\ \A f \in Files : KeyOf[f] \in Keys
    BY KeyOfAssumption DEF Books, TypeOK
  <1>3. \A f \in Files : Kept(f) => Kept(f)'
    BY <1>1, <1>2 DEF Kept, DeleteJobs, UniqueKeys
  <1>4. ASSUME NEW f \in Files, Recording(f)' PROVE Kept(f)'
    <2>1. PICK v \in Workers : work'[v] = "recording" /\ active[v] = f
      BY <1>1, <1>4 DEF Recording
    <2>2. CASE v = w
      <3>1. work' = [work EXCEPT ![w] = "recording"]
        BY <1>1, <1>2, <2>1, <2>2
      <3> QED
        BY <1>1, <1>2, <2>1, <2>2, <3>1 DEF Kept
    <2>3. CASE v # w
      <3>1. Recording(f)
        BY <1>1, <1>2, <2>1, <2>3 DEF Recording
      <3> QED
        BY <1>3, <3>1 DEF Bytes
    <2> QED
      BY <2>2, <2>3
  <1> QED
    BY <1>1, <1>3, <1>4 DEF Bytes

\* Recording the outcome of an upload gives the row a path to bytes that are there,
\* unless a deletion was accepted.
LEMMA RecordBytes ==
  ASSUME Books, Bytes, NEW w \in Workers, RecordStored(w) \/ RecordFailed(w)
  PROVE  Bytes'
  <1> USE DEF db, queue
  <1> DEFINE a == active[w]
  <1>1. /\ a \in Files
        /\ UNCHANGED <<blobs, req, active>>
        /\ work[w] = "recording" \/ filepath' = filepath
        /\ \E to \in {"done", "failing", "throwing"} : work' = [work EXCEPT ![w] = to]
        /\ \/ /\ work[w] = "recording"
              /\ status' = [status EXCEPT ![a] = "COMPLETED"]
              /\ filepath' = [filepath EXCEPT ![a] = KeyOf[a]]
           \/ /\ status' = status \/ status' = [status EXCEPT ![a] = "FAILED"]
              /\ filepath' = filepath
    BY DEF RecordStored, RecordFailed, Books, Dispatched
  <1>2. /\ status \in [Files -> RowStatus \cup NoRow]
        /\ filepath \in [Files -> Keys \cup {NoPath}]
        /\ work \in [Workers -> WorkStates]
        /\ KeyOf[a] # NoPath
    BY <1>1, KeyOfAssumption, IdsAssumption DEF Books, TypeOK
  <1>3. \A f \in Files : Kept(f)' = Kept(f)
    BY <1>1 DEF Kept, DeleteJobs
  <1>4. \A f \in Files : Recording(f)' => Recording(f)
    BY <1>1, <1>2 DEF Recording
  <1>5. work[w] = "recording" => Recording(a)
    BY DEF Recording
  <1> QED
    BY <1>1, <1>2, <1>3, <1>4, <1>5 DEF Bytes

\* Removing bytes touches only the file whose deletion the job carries.
LEMMA DeleteBytes ==
  ASSUME Books, Bytes, UniqueKeys, NEW w \in Workers, DeleteStep(w)
  PROVE  Bytes'
  <1> USE DEF db, queue
  <1> DEFINE r == active[w]
  <1>1. r \in Requests /\ req[r].pc = "queued" /\ req[r].file \in Files
    <2>1. r \in Requests
      BY DEF DeleteStep, RemoveBlob, RemoveFails, DropRow, MarkDeleteFailed, Books, Dispatched
    <2>2. r \in Queue!Live
      BY <2>1, IdsAssumption, ActiveLive
    <2> QED
      BY <2>1, <2>2 DEF Books, Accepted
  <1>2. /\ UNCHANGED <<filepath, req, active>>
        /\ \E to \in {"done", "dropping", "markingFailed", "throwing"} :
             work' = [work EXCEPT ![w] = to]
        /\ \A f \in Files : status'[f] = "COMPLETED" => status[f] = "COMPLETED"
        /\ blobs' # blobs => /\ work[w] = "removing"
                            /\ blobs' = [blobs EXCEPT ![req[r].path] = NoFile]
    <2>1. status \in [Files -> RowStatus \cup NoRow]
      BY DEF Books, TypeOK
    <2> QED
      BY <2>1 DEF DeleteStep, RemoveBlob, RemoveFails, DropRow, MarkDeleteFailed, PathOf
  <1>3. work[w] = "removing" => req[r].path = KeyOf[req[r].file]
    BY <1>1 DEF Books, Dispatched, Accepted
  <1>4. /\ blobs \in [Keys -> Files \cup {NoFile}]
        /\ work \in [Workers -> WorkStates]
        /\ \A f \in Files : KeyOf[f] \in Keys
    BY KeyOfAssumption DEF Books, TypeOK
  <1>5. r \in DeleteJobs(req[r].file)'
    BY <1>1, <1>2 DEF DeleteJobs
  <1>6. \A f \in Files : Kept(f) => Kept(f)'
    BY <1>1, <1>2, <1>3, <1>4, <1>5 DEF Kept, DeleteJobs, UniqueKeys
  <1>7. \A f \in Files : Recording(f)' => Recording(f)
    BY <1>2, <1>4 DEF Recording
  <1> QED
    BY <1>2, <1>6, <1>7, BytesFrame

\* With distinct keys every step preserves Bytes.
LEMMA BytesNext ==
  ASSUME Books, Bytes, UniqueKeys, [Next]_vars
  PROVE  Bytes'
  <1>1. ASSUME NEW w \in Workers, UploadStep(w) PROVE Bytes'
    BY <1>1, StoreBytes, RecordBytes DEF UploadStep
  <1>2. ASSUME NEW w \in Workers, DeleteStep(w) PROVE Bytes'
    BY <1>2, DeleteBytes
  <1>3. ASSUME /\ UNCHANGED <<filepath, blobs>>
               /\ \A f \in Files : status'[f] = "COMPLETED" => status[f] = "COMPLETED"
               /\ \A f \in Files : Recording(f)' => Recording(f)
        PROVE  Bytes'
    <2>1. \A f \in Files : Kept(f) => Kept(f)'
      BY <1>3, AcceptedGrow DEF Kept
    <2> QED
      BY <1>3, <2>1, BytesFrame
  <1>4. CASE UNCHANGED <<filepath, blobs, status, work, active>>
    BY <1>3, <1>4 DEF Recording
  <1>5. ASSUME NEW r \in Requests, NEW f \in Files, UploadCreate(r, f) PROVE Bytes'
    <2>1. /\ UNCHANGED <<filepath, blobs, work, active>>
          /\ \A g \in Files : status'[g] = "COMPLETED" => status[g] = "COMPLETED"
      BY <1>5 DEF UploadCreate, queue, Books, TypeOK
    <2> QED
      BY <2>1, <1>3 DEF Recording
  <1>6. ASSUME NEW r \in Requests, DeleteMark(r) PROVE Bytes'
    <2>1. /\ UNCHANGED <<filepath, blobs, work, active>>
          /\ \A g \in Files : status'[g] = "COMPLETED" => status[g] = "COMPLETED"
      BY <1>6 DEF DeleteMark, queue, Books, TypeOK
    <2> QED
      BY <2>1, <1>3 DEF Recording
  <1>7. ASSUME NEW t \in Tasks, DeleteTask(t) PROVE Bytes'
    <2>1. /\ UNCHANGED <<filepath, blobs, work, active>>
          /\ \A g \in Files : status'[g] = "COMPLETED" => status[g] = "COMPLETED"
      BY <1>7 DEF DeleteTask, queue
    <2> QED
      BY <2>1, <1>3 DEF Recording
  <1>8. ASSUME NEW w \in Workers, StartJob(w) \/ FinishJob(w) \/ WorkerDies(w) PROVE Bytes'
    <2>1. /\ UNCHANGED <<filepath, blobs, status>>
          /\ \E to \in WorkStates \ {"recording"} : work' = [work EXCEPT ![w] = to]
          /\ \E j : active' = [active EXCEPT ![w] = j]
      BY <1>8 DEF StartJob, FinishJob, WorkerDies, db, WorkStates, Queue!Take, Queue!Succeed,
         Queue!Reject, Queue!Stall
    <2>2. /\ work \in [Workers -> WorkStates]
          /\ active \in [Workers -> Jobs \cup {NoJob}]
      BY DEF Books, TypeOK, Queue!QueueTypeOK
    <2>3. \A f \in Files : Recording(f)' => Recording(f)
      BY <2>1, <2>2 DEF Recording
    <2> QED
      BY <1>3, <2>1, <2>3
  <1>9. \/ \E r \in Requests, f \in Files : UploadCreate(r, f)
        \/ \E r \in Requests : DeleteMark(r)
        \/ \E t \in Tasks : DeleteTask(t)
        \/ \E w \in Workers : \/ StartJob(w) \/ FinishJob(w) \/ WorkerDies(w)
                              \/ UploadStep(w) \/ DeleteStep(w)
        \/ UNCHANGED <<filepath, blobs, status, work, active>>
    <2>1. ASSUME NEW r \in Requests,
                 \/ \E fs \in SUBSET Files : UploadBegin(r, fs)
                 \/ \E f \in Files : DeleteBegin(r, f)
                 \/ RequestDies(r)
          PROVE  UNCHANGED <<filepath, blobs, status, work, active>>
      BY <2>1 DEF UploadBegin, DeleteBegin, RequestDies, db, queue
    <2>2. ASSUME NEW j \in Jobs, Enqueue(j) \/ LoseEvent(j) \/ Retry(j)
          PROVE  UNCHANGED <<filepath, blobs, status, work, active>>
      BY <2>2 DEF Enqueue, LoseEvent, Retry, Queue!Add, Queue!Promote, db, queue
    <2>3. CASE UNCHANGED vars
      BY <2>3 DEF vars
    <2>4. CASE Next
      BY <2>1, <2>2, <2>4, Zenon DEF Next, RequestStep
    <2> QED
      BY <2>3, <2>4
  <1> QED
    <2>1. CASE \E w \in Workers : \/ StartJob(w) \/ FinishJob(w) \/ WorkerDies(w)
                                 \/ UploadStep(w) \/ DeleteStep(w)
      BY ONLY <2>1, <1>1, <1>2, <1>8
    <2>2. CASE \/ \E r \in Requests, f \in Files : UploadCreate(r, f)
               \/ \E r \in Requests : DeleteMark(r)
               \/ \E t \in Tasks : DeleteTask(t)
      BY ONLY <2>2, <1>5, <1>6, <1>7
    <2> QED
      BY ONLY <1>4, <1>9, <2>1, <2>2

\* OwnBytes: as long as names do not collide, a COMPLETED file that nobody asked
\* to delete can be read back, through any number of crashes, redeliveries,
\* failed calls and retries.
THEOREM OwnBytesHolds == Spec => []OwnBytes
  <1> DEFINE Inv == UniqueKeys => Bytes
  <1>1. Init => Inv
    BY DEF Init, Bytes, Recording, Kept
  <1>2. Books /\ Inv /\ [Next]_vars => Inv'
    BY BytesNext DEF UniqueKeys
  <1>3. Inv => OwnBytes
    BY DEF Bytes, Kept, OwnBytes
  <1> QED
    BY <1>1, <1>2, <1>3, BooksKept, PTL DEF Spec

----------------------------------------------------------------------------
(* Wait lists without repetitions *)

\* No job stands twice in a wait list.
Distinct(s) == \A p, q \in 1..Len(s) : s[p] = s[q] => p = q

\* Appending a new element repeats nothing.
LEMMA AppendDistinct ==
  ASSUME NEW S, NEW s \in Seq(S), NEW e \in S, Distinct(s), e \notin InList(s)
  PROVE  Distinct(Append(s, e))
  <1>1. /\ Len(Append(s, e)) = Len(s) + 1
        /\ \A i \in 1..Len(s) : Append(s, e)[i] = s[i] /\ s[i] # e
        /\ Append(s, e)[Len(s) + 1] = e
        /\ Len(s) \in Nat
    BY DEF InList
  <1>2. \A i \in 1..(Len(s) + 1) : i \in 1..Len(s) \/ i = Len(s) + 1
    BY <1>1
  <1> QED
    BY <1>1, <1>2 DEF Distinct

\* Without its head a list without repetitions has none, and the head is gone.
LEMMA TailDistinct ==
  ASSUME NEW S, NEW s \in Seq(S), s # <<>>, Distinct(s)
  PROVE  Distinct(Tail(s)) /\ Head(s) \notin InList(Tail(s))
  <1> DEFINE t == Tail(s)
  <1>1. /\ Head(s) = s[1]
        /\ Len(s) \in Nat \ {0}
        /\ Len(t) = Len(s) - 1
        /\ \A i \in 1..Len(t) : t[i] = s[i + 1]
    OBVIOUS
  <1> HIDE DEF t
  <1>2. \A i \in 1..Len(t) : i + 1 \in 1..Len(s) /\ i + 1 # 1
    BY <1>1
  <1>3. Distinct(t)
    <2> SUFFICES ASSUME NEW p \in 1..Len(t), NEW q \in 1..Len(t), t[p] = t[q] PROVE p = q
      BY DEF Distinct
    <2>1. s[p + 1] = s[q + 1]
      BY <1>1
    <2>2. p + 1 = q + 1
      BY <1>2, <2>1 DEF Distinct
    <2> QED
      BY <1>1, <2>2
  <1>4. Head(s) \notin InList(t)
    <2>1. 1 \in 1..Len(s)
      BY <1>1
    <2>2. \A i \in 1..Len(t) : t[i] # s[1]
      BY <1>1, <1>2, <2>1 DEF Distinct
    <2> QED
      BY <1>1, <2>2 DEF InList
  <1> QED
    BY <1>3, <1>4 DEF t

\* Pushing a new element at the front repeats nothing.
LEMMA PushDistinct ==
  ASSUME NEW S, NEW s \in Seq(S), NEW e \in S, Distinct(s), e \notin InList(s)
  PROVE  Distinct(<<e>> \o s)
  <1> DEFINE t == <<e>> \o s
  <1>1. /\ Len(t) = Len(s) + 1
        /\ Len(s) \in Nat
        /\ t[1] = e
        /\ \A i \in 1..Len(s) : t[i + 1] = s[i]
    OBVIOUS
  <1> HIDE DEF t
  <1>2. ASSUME NEW i \in 1..Len(t), i # 1
        PROVE  i - 1 \in 1..Len(s) /\ t[i] = s[i - 1] /\ t[i] # e
    <2>1. i - 1 \in 1..Len(s) /\ (i - 1) + 1 = i
      BY <1>1, <1>2
    <2>2. t[i] = s[i - 1]
      BY <1>1, <2>1
    <2> QED
      BY <2>1, <2>2 DEF InList
  <1>3. ASSUME NEW p \in 1..Len(t), NEW q \in 1..Len(t), t[p] = t[q] PROVE p = q
    <2>1. CASE p = 1 \/ q = 1
      BY <1>1, <1>2, <1>3, <2>1
    <2>2. CASE p # 1 /\ q # 1
      <3>1. p - 1 = q - 1
        BY <1>2, <1>3, <2>2 DEF Distinct
      <3> QED
        BY <1>1, <3>1
    <2> QED
      BY <2>1, <2>2
  <1>4. Distinct(t)
    BY <1>3 DEF Distinct
  <1> QED
    BY <1>4 DEF t

----------------------------------------------------------------------------
(* A job is in one place *)

\* Another form of Queue!OneCopy, with the wait list's own facts apart.
OnePlace ==
  /\ Distinct(wait)
  /\ \A v, w \in Workers : active[v] = active[w] /\ active[v] # NoJob => v = w
  /\ InList(wait) \cap (delayed \cup Queue!Running \cup failed \cup completed) = {}
  /\ delayed \cap (Queue!Running \cup failed \cup completed) = {}
  /\ Queue!Running \cap (failed \cup completed) = {}
  /\ failed \cap completed = {}

\* OnePlace says in sets what OneCopy says in positions.
LEMMA OnePlaceIsOneCopy == OnePlace <=> OneCopy
  BY DEF OnePlace, OneCopy, Queue!OneCopy, Queue!Waiting, InList, Distinct

\* Adding a job that was never added, or promoting a delayed one, moves it to the wait
\* list only.
LEMMA JobOnePlace ==
  ASSUME Queue!QueueTypeOK, OnePlace, NEW j \in Jobs, Queue!Add(j) \/ Queue!Promote(j)
  PROVE  OnePlace'
  <1>1. /\ wait' = Append(wait, j) /\ wait \in Seq(Jobs)
        /\ UNCHANGED <<active, failed, completed>>
        /\ delayed' = delayed \ {j}
        /\ j \notin InList(wait) \cup Queue!Running \cup failed \cup completed
    <2>1. CASE Queue!Add(j)
      BY <2>1 DEF Queue!Add, Queue!Added, Queue!Waiting, InList, Queue!QueueTypeOK
    <2>2. CASE Queue!Promote(j)
      BY <2>2 DEF Queue!Promote, OnePlace, Queue!QueueTypeOK
    <2> QED
      BY <2>1, <2>2
  <1>2. Distinct(wait') /\ InList(wait') = InList(wait) \cup {j}
    BY <1>1, AppendDistinct, AppendRange DEF OnePlace
  <1>3. Queue!Running' = Queue!Running
    BY <1>1 DEF Queue!Running
  <1> QED
    BY <1>1, <1>2, <1>3 DEF OnePlace

\* The head of the wait list moves to one idle worker.
LEMMA TakeOnePlace ==
  ASSUME Queue!QueueTypeOK, OnePlace, NEW w \in Workers, Queue!Take(w)
  PROVE  OnePlace'
  <1> DEFINE j == Head(wait)
  <1>1. /\ wait \in Seq(Jobs) /\ wait # <<>> /\ wait' = Tail(wait)
        /\ UNCHANGED <<delayed, failed, completed>>
        /\ active \in [Workers -> Jobs \cup {NoJob}]
        /\ active[w] = NoJob
        /\ active' = [active EXCEPT ![w] = j]
    BY DEF Queue!Take, Queue!QueueTypeOK
  <1>2. /\ Distinct(wait') /\ j \notin InList(wait')
        /\ j \in Jobs /\ InList(wait) = InList(wait') \cup {j}
    BY <1>1, TailDistinct, TailRange DEF OnePlace
  <1> HIDE DEF j
  <1>3. j # NoJob /\ j \notin Queue!Running
    BY <1>2, IdsAssumption DEF Jobs, OnePlace
  <1>4. \A v \in Workers : active'[v] = IF v = w THEN j ELSE active[v]
    BY <1>1
  <1>5. Queue!Running' = Queue!Running \cup {j}
    BY <1>1, <1>3, <1>4 DEF Queue!Running
  <1>6. \A u, v \in Workers : active'[u] = active'[v] /\ active'[u] # NoJob => u = v
    BY <1>3, <1>4 DEF OnePlace, Queue!Running
  <1> QED
    BY <1>1, <1>2, <1>5, <1>6 DEF OnePlace

\* A job that settles, is delayed or redelivered leaves the one worker that held it.
LEMMA SettleOnePlace ==
  ASSUME Queue!QueueTypeOK, OnePlace, NEW w \in Workers,
         Queue!Succeed(w) \/ Queue!Reject(w) \/ Queue!Stall(w)
  PROVE  OnePlace'
  <1> DEFINE j == active[w]
  <1>1. /\ wait \in Seq(Jobs)
        /\ active \in [Workers -> Jobs \cup {NoJob}]
        /\ j \in Jobs /\ j # NoJob
        /\ active' = [active EXCEPT ![w] = NoJob]
    BY DEF Queue!Succeed, Queue!Reject, Queue!Stall, Queue!QueueTypeOK
  <1>2. \/ /\ completed' = completed \cup {j}
           /\ UNCHANGED <<wait, delayed, failed>>
        \/ /\ delayed' = delayed \cup {j}
           /\ UNCHANGED <<wait, failed, completed>>
        \/ /\ failed' = failed \cup {j}
           /\ UNCHANGED <<wait, delayed, completed>>
        \/ /\ wait' = <<j>> \o wait
           /\ UNCHANGED <<delayed, failed, completed>>
    <2>1. CASE Queue!Succeed(w)
      BY <2>1 DEF Queue!Succeed
    <2>2. CASE Queue!Reject(w)
      BY <2>2 DEF Queue!Reject
    <2>3. CASE Queue!Stall(w)
      BY <2>3 DEF Queue!Stall
    <2> QED
      BY <2>1, <2>2, <2>3
  <1>3. \A v \in Workers : active'[v] = IF v = w THEN NoJob ELSE active[v]
    BY <1>1
  <1>4. Queue!Running' = Queue!Running \ {j} /\ j \in Queue!Running
    BY <1>1, <1>3 DEF Queue!Running, OnePlace
  <1>5. j \notin InList(wait) \cup delayed \cup failed \cup completed
    BY <1>4 DEF OnePlace
  <1>6. /\ Distinct(wait')
        /\ InList(wait') \subseteq InList(wait) \cup {j}
        /\ j \in InList(wait') => UNCHANGED <<delayed, failed, completed>>
    <2>1. CASE wait' = wait
      BY <2>1, <1>5 DEF OnePlace
    <2>2. CASE wait' = <<j>> \o wait /\ UNCHANGED <<delayed, failed, completed>>
      BY <2>2, <1>1, <1>5, PushDistinct, PushRange DEF OnePlace
    <2> QED
      BY <1>2, <2>1, <2>2
  <1>7. \A u, v \in Workers : active'[u] = active'[v] /\ active'[u] # NoJob => u = v
    BY <1>3 DEF OnePlace
  <1> HIDE DEF j
  <1> QED
    BY <1>2, <1>4, <1>5, <1>6, <1>7 DEF OnePlace

----------------------------------------------------------------------------
\* Every step of FileJobs is an operation of the queue or leaves it alone.
LEMMA QueueSteps ==
  ASSUME [Next]_vars
  PROVE  \/ \E j \in Jobs : Queue!Add(j) \/ Queue!Promote(j)
         \/ \E w \in Workers : \/ Queue!Take(w) \/ Queue!Succeed(w)
                               \/ Queue!Reject(w) \/ Queue!Stall(w)
         \/ UNCHANGED queue
  <1>1. ASSUME NEW r, NEW f, NEW fs,
               \/ UploadBegin(r, fs) \/ UploadCreate(r, f) \/ DeleteBegin(r, f)
               \/ DeleteMark(r) \/ RequestDies(r)
        PROVE  UNCHANGED queue
    BY <1>1 DEF UploadBegin, UploadCreate, DeleteBegin, DeleteMark, RequestDies
  <1>2. ASSUME NEW t, DeleteTask(t) PROVE UNCHANGED queue
    BY <1>2 DEF DeleteTask
  <1>3. ASSUME NEW j \in Jobs, Enqueue(j) \/ LoseEvent(j) \/ Retry(j)
        PROVE  Queue!Add(j) \/ Queue!Promote(j) \/ UNCHANGED queue
    BY <1>3 DEF Enqueue, LoseEvent, Retry
  <1>4. ASSUME NEW w \in Workers, StartJob(w) \/ FinishJob(w) \/ WorkerDies(w)
        PROVE  Queue!Take(w) \/ Queue!Succeed(w) \/ Queue!Reject(w) \/ Queue!Stall(w)
    BY <1>4 DEF StartJob, FinishJob, WorkerDies
  <1>5. ASSUME NEW w \in Workers, UploadStep(w) \/ DeleteStep(w) PROVE UNCHANGED queue
    BY <1>5 DEF UploadStep, DeleteStep, StoreBlob, StoreFails, RecordStored, RecordFailed,
       RemoveBlob, RemoveFails, DropRow, MarkDeleteFailed
  <1>6. CASE UNCHANGED vars
    BY <1>6 DEF vars, queue
  <1>7. CASE Next
    BY <1>1, <1>2, <1>3, <1>4, <1>5, <1>7, Zenon DEF Next, RequestStep
  <1> QED
    BY <1>6, <1>7

\* OneCopy: whatever requests, handlers and faults do, a job of the file queue is in
\* one place, and no two workers hold it.
THEOREM OneCopyHolds == Spec => []OneCopy
  <1>1. Init => OnePlace
    <2>1. ASSUME Init PROVE Queue!Running = {} /\ InList(wait) = {} /\ Distinct(wait)
      BY <2>1 DEF Init, Queue!QueueInit, Queue!Running, InList, Distinct
    <2> QED
      BY <2>1 DEF Init, Queue!QueueInit, OnePlace
  <1>2. Books /\ OnePlace /\ [Next]_vars => OnePlace'
    <2> SUFFICES ASSUME Books, OnePlace, [Next]_vars PROVE OnePlace'
      OBVIOUS
    <2>1. Queue!QueueTypeOK
      BY DEF Books, TypeOK
    <2>2. CASE UNCHANGED queue
      BY <2>2 DEF queue, OnePlace, InList, Distinct, Queue!Running
    <2> QED
      BY <2>1, <2>2, QueueSteps, JobOnePlace, TakeOnePlace, SettleOnePlace
  <1> QED
    BY <1>1, <1>2, OnePlaceIsOneCopy, BooksKept, PTL DEF Spec

----------------------------------------------------------------------------
(* The lists implement the pool of jobs *)

\* Where a job is, list by list.
In(j, stage) ==
  \/ stage = "ready"   /\ j \in InList(wait)
  \/ stage = "running" /\ j \in Queue!Running
  \/ stage = "delayed" /\ j \in delayed
  \/ stage = "failed"  /\ j \in failed
  \/ stage = "done"    /\ j \in completed
  \/ stage = "none"    /\ j \notin Queue!Added

\* A job that is in one place has the stage of that place.
LEMMA StageIs ==
  ASSUME OnePlace, NEW j, NEW stage, In(j, stage)
  PROVE  Queue!StageOf(j) = stage
  <1> USE DEF OnePlace, In, Queue!StageOf, Queue!Added, Queue!Waiting, InList
  <1>1. CASE stage = "ready"
    BY <1>1
  <1>2. CASE stage = "running"
    BY <1>2
  <1>3. CASE stage = "delayed"
    BY <1>3
  <1>4. CASE stage = "failed"
    BY <1>4
  <1>5. CASE stage = "done"
    BY <1>5
  <1>6. CASE stage = "none"
    BY <1>6
  <1> QED
    BY <1>1, <1>2, <1>3, <1>4, <1>5, <1>6

\* The same in the next state.
LEMMA NextStageIs ==
  ASSUME OnePlace', NEW j, NEW stage, In(j, stage)'
  PROVE  Queue!StageOf(j)' = stage
  <1> USE DEF OnePlace, In, Queue!StageOf, Queue!Added, Queue!Waiting, InList
  <1>1. CASE stage = "ready"
    BY <1>1
  <1>2. CASE stage = "running"
    BY <1>2
  <1>3. CASE stage = "delayed"
    BY <1>3
  <1>4. CASE stage = "failed"
    BY <1>4
  <1>5. CASE stage = "done"
    BY <1>5
  <1>6. CASE stage = "none"
    BY <1>6
  <1> QED
    BY <1>1, <1>2, <1>3, <1>4, <1>5, <1>6

\* A job is somewhere.
LEMMA SomeStage == \A j : \E stage : In(j, stage)
  BY DEF In, Queue!Added, Queue!Waiting, InList

PoolStage == [j \in Jobs |-> Queue!StageOf(j)]

\* One job moves and every other stays where it was.
LEMMA PoolMoves ==
  ASSUME OnePlace, OnePlace', NEW j \in Jobs, NEW from, NEW to, In(j, from), In(j, to)',
         \A k \in Jobs \ {j} : \A stage : In(k, stage) => In(k, stage)'
  PROVE  PoolStage[j] = from /\ PoolStage' = [PoolStage EXCEPT ![j] = to]
  <1>1. Queue!StageOf(j) = from
    BY StageIs
  <1>2. Queue!StageOf(j)' = to
    BY NextStageIs
  <1>3. ASSUME NEW k \in Jobs \ {j} PROVE Queue!StageOf(k)' = Queue!StageOf(k)
    <2>1. PICK stage : In(k, stage)
      BY SomeStage
    <2>2. Queue!StageOf(k) = stage
      BY <2>1, StageIs
    <2>3. In(k, stage)'
      BY <2>1
    <2>4. Queue!StageOf(k)' = stage
      BY <2>3, NextStageIs
    <2> QED
      BY <2>2, <2>4
  <1> QED
    BY <1>1, <1>2, <1>3 DEF PoolStage

\* Adding and promoting a job are Put and Due.
LEMMA JobImplements ==
  ASSUME Queue!QueueTypeOK, OnePlace, NEW j \in Jobs, Queue!Add(j) \/ Queue!Promote(j)
  PROVE  Queue!Pool!PoolNext
  <1>1. OnePlace'
    BY JobOnePlace
  <1>2. /\ wait' = Append(wait, j) /\ wait \in Seq(Jobs)
        /\ UNCHANGED <<active, failed, completed, attempts, stalls>>
        /\ delayed' = delayed \ {j}
        /\ In(j, "none") \/ In(j, "delayed")
    BY DEF Queue!Add, Queue!Promote, In, Queue!QueueTypeOK, Queue!Added
  <1>3. InList(wait') = InList(wait) \cup {j}
    BY <1>2, AppendRange
  <1>4. Queue!Running' = Queue!Running
    BY <1>2 DEF Queue!Running
  <1>5. In(j, "ready")'
    BY <1>3 DEF In
  <1>6. \A k \in Jobs \ {j} : \A stage : In(k, stage) => In(k, stage)'
    BY <1>2, <1>3, <1>4 DEF In, Queue!Added, Queue!Waiting, InList
  <1>7. \/ Queue!Pool!Moves(j, "none", "ready")
        \/ Queue!Pool!Moves(j, "delayed", "ready")
    BY <1>1, <1>2, <1>5, <1>6, PoolMoves DEF Queue!Pool!Moves, PoolStage
  <1> QED
    BY <1>2, <1>7 DEF Queue!Pool!PoolNext, Queue!Pool!Put, Queue!Pool!Due

\* Taking one is Start.
LEMMA TakeImplements ==
  ASSUME Queue!QueueTypeOK, OnePlace, NEW w \in Workers, Queue!Take(w)
  PROVE  Queue!Pool!PoolNext
  <1>1. OnePlace'
    BY TakeOnePlace
  <1>2. /\ wait \in Seq(Jobs) /\ wait # <<>> /\ wait' = Tail(wait)
        /\ UNCHANGED <<delayed, failed, completed, attempts, stalls>>
        /\ active \in [Workers -> Jobs \cup {NoJob}]
        /\ active[w] = NoJob
        /\ active' = [active EXCEPT ![w] = Head(wait)]
    BY DEF Queue!Take, Queue!QueueTypeOK
  <1>3. PICK j \in Jobs : j = Head(wait)
    BY <1>2
  <1>4. InList(wait) = InList(wait') \cup {j} /\ j # NoJob
    BY <1>2, <1>3, TailRange, IdsAssumption DEF Jobs
  <1>5. \A v \in Workers : active'[v] = IF v = w THEN j ELSE active[v]
    BY <1>2, <1>3
  <1>6. Queue!Running' = Queue!Running \cup {j}
    BY <1>2, <1>4, <1>5 DEF Queue!Running
  <1>7. In(j, "ready") /\ In(j, "running")'
    BY <1>4, <1>6 DEF In
  <1>8. \A k \in Jobs \ {j} : \A stage : In(k, stage) => In(k, stage)'
    BY <1>2, <1>4, <1>6 DEF In, Queue!Added, Queue!Waiting, InList
  <1>9. Queue!Pool!Moves(j, "ready", "running")
    BY <1>1, <1>7, <1>8, PoolMoves DEF Queue!Pool!Moves, PoolStage
  <1> QED
    BY <1>2, <1>9 DEF Queue!Pool!PoolNext, Queue!Pool!Start

\* The end of a run is Finish, Fail or Die.
LEMMA SettleImplements ==
  ASSUME Queue!QueueTypeOK, OnePlace, NEW w \in Workers,
         Queue!Succeed(w) \/ Queue!Reject(w) \/ Queue!Stall(w)
  PROVE  Queue!Pool!PoolNext
  <1>1. OnePlace'
    BY SettleOnePlace
  <1>2. /\ wait \in Seq(Jobs)
        /\ active \in [Workers -> Jobs \cup {NoJob}]
        /\ attempts \in [Jobs -> Nat] /\ stalls \in [Jobs -> Nat]
        /\ active[w] # NoJob
        /\ active' = [active EXCEPT ![w] = NoJob]
    BY DEF Queue!Succeed, Queue!Reject, Queue!Stall, Queue!QueueTypeOK
  <1>0. PICK j \in Jobs : j = active[w]
    BY <1>2
  <1>3. \A v \in Workers : active'[v] = IF v = w THEN NoJob ELSE active[v]
    BY <1>2
  <1>4. Queue!Running' = Queue!Running \ {j} /\ j \in Queue!Running
    BY <1>0, <1>2, <1>3 DEF Queue!Running, OnePlace
  <1>5. InList(<<j>> \o wait) = InList(wait) \cup {j}
    BY <1>2, PushRange
  <1>6. In(j, "running")
    BY <1>4 DEF In
  <1> DEFINE Leaves(to) == Queue!Pool!Moves(j, "running", to)
  <1>7. ASSUME UNCHANGED <<wait, delayed, failed>>, completed' = completed \cup {j}
        PROVE  Leaves("done")
    <2>1. \A k \in Jobs \ {j} : \A stage : In(k, stage) => In(k, stage)'
      BY <1>4, <1>7 DEF In, Queue!Added, Queue!Waiting, InList
    <2>2. In(j, "done")'
      BY <1>7 DEF In
    <2> QED
      BY <1>1, <1>2, <1>6, <2>1, <2>2, PoolMoves DEF Queue!Pool!Moves, PoolStage
  <1>8. ASSUME UNCHANGED <<wait, failed, completed>>, delayed' = delayed \cup {j}
        PROVE  Leaves("delayed")
    <2>1. \A k \in Jobs \ {j} : \A stage : In(k, stage) => In(k, stage)'
      BY <1>4, <1>8 DEF In, Queue!Added, Queue!Waiting, InList
    <2>2. In(j, "delayed")'
      BY <1>8 DEF In
    <2> QED
      BY <1>1, <1>2, <1>6, <2>1, <2>2, PoolMoves DEF Queue!Pool!Moves, PoolStage
  <1>9. ASSUME UNCHANGED <<wait, delayed, completed>>, failed' = failed \cup {j}
        PROVE  Leaves("failed")
    <2>1. \A k \in Jobs \ {j} : \A stage : In(k, stage) => In(k, stage)'
      BY <1>4, <1>9 DEF In, Queue!Added, Queue!Waiting, InList
    <2>2. In(j, "failed")'
      BY <1>9 DEF In
    <2> QED
      BY <1>1, <1>2, <1>6, <2>1, <2>2, PoolMoves DEF Queue!Pool!Moves, PoolStage
  <1>10. ASSUME UNCHANGED <<delayed, failed, completed>>, wait' = <<j>> \o wait
         PROVE  Leaves("ready")
    <2>1. InList(wait') = InList(wait) \cup {j}
      BY <1>5, <1>10
    <2>2. \A k \in Jobs \ {j} : \A stage : In(k, stage) => In(k, stage)'
      BY <1>4, <1>10, <2>1 DEF In, Queue!Added, Queue!Waiting, InList
    <2>3. In(j, "ready")'
      BY <2>1 DEF In
    <2> QED
      BY <1>1, <1>2, <1>6, <2>2, <2>3, PoolMoves DEF Queue!Pool!Moves, PoolStage
  <1> HIDE DEF Leaves
  <1>11. CASE Queue!Succeed(w)
    <2>1. Leaves("done") /\ UNCHANGED <<attempts, stalls>>
      BY <1>0, <1>7, <1>11 DEF Queue!Succeed
    <2> QED
      BY <1>2, <2>1 DEF Leaves, Queue!Pool!PoolNext, Queue!Pool!Finish
  <1>12. CASE Queue!Reject(w)
    <2>1. /\ attempts' = [attempts EXCEPT ![j] = @ + 1] /\ stalls' = stalls
          /\ \/ attempts[j] + 1 < MaxAttempts /\ Leaves("delayed")
             \/ attempts[j] + 1 >= MaxAttempts /\ Leaves("failed")
      BY <1>0, <1>8, <1>9, <1>12 DEF Queue!Reject
    <2> QED
      BY <1>2, <2>1 DEF Leaves, Queue!Pool!PoolNext, Queue!Pool!Fail
  <1>13. CASE Queue!Stall(w)
    <2>1. /\ stalls' = [stalls EXCEPT ![j] = @ + 1] /\ attempts' = attempts
          /\ \/ stalls[j] < MaxStalls /\ Leaves("ready")
             \/ stalls[j] >= MaxStalls /\ Leaves("failed")
      BY <1>0, <1>9, <1>10, <1>13 DEF Queue!Stall
    <2> QED
      BY <1>2, <2>1 DEF Leaves, Queue!Pool!PoolNext, Queue!Pool!Die
  <1> QED
    BY <1>11, <1>12, <1>13

\* ImplementsPool: the lists of the file queue, as FileJobs uses them, are a
\* refinement of the pool of jobs, for every number of attempts and deaths.
THEOREM ImplementsPoolHolds == Spec => ImplementsPool
  <1>1. Init => Queue!Pool!PoolInit
    <2> SUFFICES ASSUME Init PROVE Queue!Pool!PoolInit
      OBVIOUS
    <2>1. ASSUME NEW j \in Jobs PROVE Queue!StageOf(j) = "none"
      BY DEF Init, Queue!QueueInit, Queue!StageOf, Queue!Running, Queue!Waiting
    <2> QED
      BY <2>1 DEF Init, Queue!QueueInit, Queue!Pool!PoolInit
  <1>2. Books /\ OnePlace /\ [Next]_vars => [Queue!Pool!PoolNext]_(Queue!Pool!poolVars)
    <2> SUFFICES ASSUME Books, OnePlace, [Next]_vars
                 PROVE  [Queue!Pool!PoolNext]_(Queue!Pool!poolVars)
      OBVIOUS
    <2>1. Queue!QueueTypeOK
      BY DEF Books, TypeOK
    <2>2. CASE UNCHANGED queue
      <3>1. \A j \in Jobs : Queue!StageOf(j)' = Queue!StageOf(j)
        BY <2>2 DEF queue, Queue!StageOf, Queue!Running, Queue!Waiting
      <3> QED
        BY <2>2, <3>1 DEF queue, Queue!Pool!poolVars
    <2> QED
      BY <2>1, <2>2, QueueSteps, JobImplements, TakeImplements, SettleImplements
  <1> QED
    BY <1>1, <1>2, OneCopyHolds, OnePlaceIsOneCopy, BooksKept, PTL
       DEF Spec, ImplementsPool, Queue!ImplementsPool, Queue!Pool!PoolSpec

----------------------------------------------------------------------------
(* A file is uploaded once *)

\* A file is created by one request, and from then on has its one upload job.
Claims ==
  \A f \in Files :
    /\ \A r \in Requests : f \in req[r].todo => status[f] = "unborn"
    /\ \A q, r \in Requests : f \in req[q].todo /\ f \in req[r].todo => q = r
    /\ f \in emitted \cup Queue!Added => status[f] # "unborn"
    /\ f \in emitted => f \notin Queue!Added
    /\ status[f] = "unborn" => filepath[f] = NoPath

\* Nothing will run the upload of f again.
UploadOver(f) ==
  /\ f \notin emitted \cup InList(wait) \cup delayed
  /\ \A w \in Workers : active[w] = f => work[w] = "done"

\* While no process dies and no answer is lost: the upload of a file whose path is
\* recorded is over, and a delete job that has a path is for such a file.
Recorded ==
  /\ \A f \in Files : filepath[f] # NoPath => UploadOver(f)
  /\ \A r \in Requests :
       req[r].pc \in {"marking", "queued"} /\ req[r].path # NoPath
         => filepath[req[r].file] # NoPath
  /\ \A w \in Workers : work[w] = "dropping" => req[active[w]].path # NoPath

\* Only adding a job makes it known to the queue.
LEMMA AddedGrows ==
  ASSUME Queue!QueueTypeOK, NEW j \in Jobs, Queue!Add(j)
  PROVE  Queue!Added' \subseteq Queue!Added \cup {j}
  <1>1. /\ wait \in Seq(Jobs) /\ wait' = Append(wait, j)
        /\ UNCHANGED <<delayed, active, failed, completed>>
    BY DEF Queue!Add, Queue!QueueTypeOK
  <1> QED
    BY <1>1, AppendRange DEF Queue!Added, Queue!Waiting, Queue!Running, InList

\* No operation of the queue but adding changes which jobs were added; none forgets
\* one.
LEMMA AddedKept ==
  ASSUME Queue!QueueTypeOK,
         \/ \E j \in Jobs : Queue!Promote(j)
         \/ \E w \in Workers : \/ Queue!Take(w) \/ Queue!Succeed(w)
                               \/ Queue!Reject(w) \/ Queue!Stall(w)
         \/ UNCHANGED queue
  PROVE  Queue!Added' \subseteq Queue!Added
  <1> USE DEF Queue!Added, Queue!Waiting, InList
  <1>1. ASSUME NEW j \in Jobs, Queue!Promote(j)
        PROVE  Queue!Added' \subseteq Queue!Added
    <2>1. /\ wait \in Seq(Jobs) /\ wait' = Append(wait, j) /\ j \in delayed
          /\ delayed' \subseteq delayed /\ UNCHANGED <<active, failed, completed>>
      BY <1>1 DEF Queue!Promote, Queue!QueueTypeOK
    <2> QED
      BY <2>1, AppendRange DEF Queue!Running
  <1>2. ASSUME NEW w \in Workers, Queue!Take(w)
        PROVE  Queue!Added' \subseteq Queue!Added
    <2>1. Queue!Live' = Queue!Live /\ UNCHANGED <<failed, completed>>
      BY <1>2, TakeMoves DEF Queue!Take
    <2> QED
      BY <2>1 DEF Queue!Live
  <1>3. ASSUME NEW w \in Workers, Queue!Succeed(w) \/ Queue!Reject(w) \/ Queue!Stall(w)
        PROVE  Queue!Added' \subseteq Queue!Added
    <2>1. Queue!Live' \subseteq Queue!Live
      BY <1>3, SettleMoves
    <2>2. active[w] \in Queue!Running
      BY <1>3 DEF Queue!Succeed, Queue!Reject, Queue!Stall, Queue!Running
    <2>3. failed' \cup completed' \subseteq failed \cup completed \cup {active[w]}
      BY <1>3 DEF Queue!Succeed, Queue!Reject, Queue!Stall
    <2> QED
      BY <2>1, <2>2, <2>3 DEF Queue!Live
  <1>4. CASE UNCHANGED queue
    BY <1>4 DEF queue, Queue!Running
  <1> QED
    BY <1>1, <1>2, <1>3, <1>4

\* At first no request claims a file.
LEMMA ClaimsInit == Init => Claims
  BY DEF Init, Claims, Queue!QueueInit, Queue!Added, Queue!Waiting, Queue!Running

\* Enough for a step: no file is claimed, emitted, added or recorded that was not.
LEMMA ClaimsFrame ==
  ASSUME Claims,
         \A r \in Requests : req'[r].todo \subseteq req[r].todo,
         Files \cap emitted' \subseteq emitted,
         Queue!Added' \subseteq Queue!Added,
         \A f \in Files : status'[f] = "unborn" <=> status[f] = "unborn",
         \A f \in Files : status[f] = "unborn" => filepath'[f] = filepath[f]
  PROVE  Claims'
  <1> SUFFICES ASSUME NEW f \in Files
               PROVE  /\ \A r \in Requests : f \in req'[r].todo => status'[f] = "unborn"
                      /\ \A q, r \in Requests : f \in req'[q].todo /\ f \in req'[r].todo => q = r
                      /\ f \in emitted' \cup Queue!Added' => status'[f] # "unborn"
                      /\ f \in emitted' => f \notin Queue!Added'
                      /\ status'[f] = "unborn" => filepath'[f] = NoPath
    BY DEF Claims
  <1>1. \A q, r \in Requests : f \in req'[q].todo /\ f \in req'[r].todo => q = r
    BY DEF Claims
  <1>2. \A r \in Requests : f \in req'[r].todo => status'[f] = "unborn"
    <2>1. ASSUME NEW r \in Requests, f \in req'[r].todo
          PROVE  status'[f] = "unborn"
      <3>1. f \in req[r].todo
        BY <2>1
      <3>2. status[f] = "unborn"
        BY <3>1 DEF Claims
      <3> QED
        BY <3>2
    <2> QED
      BY <2>1
  <1>3. /\ f \in emitted => f \notin Queue!Added
        /\ f \in emitted \cup Queue!Added => status[f] # "unborn"
        /\ status[f] = "unborn" => filepath[f] = NoPath
    BY DEF Claims
  <1>4. /\ f \in emitted' => f \in emitted
        /\ f \in Queue!Added' => f \in Queue!Added
        /\ status'[f] = "unborn" <=> status[f] = "unborn"
        /\ status[f] = "unborn" => filepath'[f] = filepath[f]
    OBVIOUS
  <1> HIDE DEF Claims
  <1> QED
    BY <1>1, <1>2, <1>3, <1>4

\* An upload claims the files it has still to insert, and no two claim the same one.
LEMMA ClaimsNext ==
  ASSUME Books, Claims, [Next]_vars
  PROVE  Claims'
  <1>0. /\ req \in [Requests -> Request]
        /\ status \in [Files -> RowStatus \cup NoRow]
        /\ filepath \in [Files -> Keys \cup {NoPath}]
        /\ Queue!QueueTypeOK
    BY DEF Books, TypeOK, Request
  <1>1. UNCHANGED queue => Queue!Added' = Queue!Added
    BY DEF queue, Queue!Added, Queue!Waiting, Queue!Running
  <1>2. ASSUME NEW r \in Requests, NEW fs \in SUBSET Files, UploadBegin(r, fs)
        PROVE  Claims'
    <2>1. /\ UNCHANGED <<status, filepath, emitted>> /\ UNCHANGED queue
          /\ \A q \in Requests : req'[q].todo = IF q = r THEN fs ELSE req[q].todo
          /\ \A f \in fs : status[f] = "unborn" /\ \A q \in Requests : f \notin req[q].todo
      BY <1>0, <1>2 DEF UploadBegin, db, Claimed, Request
    <2> QED
      BY <1>1, <2>1 DEF Claims
  <1>3. ASSUME NEW r \in Requests, NEW f \in Files, UploadCreate(r, f)
        PROVE  Claims'
    <2>1. /\ UNCHANGED filepath /\ UNCHANGED queue /\ f \in req[r].todo
          /\ \A q \in Requests : req'[q].todo \subseteq req[q].todo
          /\ \/ UNCHANGED <<status, emitted>>
             \/ /\ status' = [status EXCEPT ![f] = "PENDING"]
                /\ emitted' = emitted \/ emitted' = emitted \cup {f}
                /\ f \notin req'[r].todo
      BY <1>0, <1>3 DEF UploadCreate, Request
    <2>2. CASE UNCHANGED <<status, emitted>>
      BY <1>1, <2>1, <2>2, ClaimsFrame
    <2>3. CASE /\ status' = [status EXCEPT ![f] = "PENDING"]
               /\ emitted' = emitted \/ emitted' = emitted \cup {f}
               /\ f \notin req'[r].todo
      <3>1. status[f] = "unborn" /\ f \notin emitted /\ f \notin Queue!Added
        BY <2>1 DEF Claims
      <3>2. \A q \in Requests : f \notin req'[q].todo
        BY <2>1, <2>3 DEF Claims
      <3>3. \A g \in Files : status'[g] = IF g = f THEN "PENDING" ELSE status[g]
        BY <1>0, <2>3
      <3>4. Queue!Added' = Queue!Added /\ filepath' = filepath
        BY <1>1, <2>1
      <3> QED
        BY <2>1, <2>3, <3>1, <3>2, <3>3, <3>4 DEF Claims
    <2> QED
      BY <2>1, <2>2, <2>3
  <1>4. ASSUME NEW r \in Requests,
               (\E f \in Files : DeleteBegin(r, f)) \/ DeleteMark(r) \/ RequestDies(r)
        PROVE  Claims'
    <2>1. /\ filepath' = filepath /\ UNCHANGED queue
          /\ Files \cap emitted' \subseteq emitted
          /\ \/ status' = status
             \/ \E g : HasRow(g) /\ status' = [status EXCEPT ![g] = "DELETING"]
      BY <1>4, IdsAssumption DEF DeleteBegin, DeleteMark, RequestDies, db
    <2>2. \A q \in Requests : req'[q].todo \subseteq req[q].todo
      <3>1. CASE DeleteMark(r)
        <4>1. \E pc : req' = [req EXCEPT ![r].pc = pc]
          BY <3>1 DEF DeleteMark
        <4> QED
          BY <1>0, <4>1 DEF Request
      <3>2. CASE RequestDies(r)
        BY <1>0, <3>2 DEF RequestDies, Request
      <3>3. ASSUME NEW f \in Files, DeleteBegin(r, f)
            PROVE  \A q \in Requests : req'[q].todo \subseteq req[q].todo
        BY <1>0, <3>3 DEF DeleteBegin, Request
      <3> QED
        BY <1>4, <3>1, <3>2, <3>3
    <2>3. \A g : HasRow(g) => status[g] # "unborn"
      BY DEF HasRow, RowStatus
    <2>4. \A g \in Files : status'[g] = "unborn" <=> status[g] = "unborn"
      BY <1>0, <2>1, <2>3
    <2> QED
      BY <1>1, <2>1, <2>2, <2>4, ClaimsFrame
  <1>5. ASSUME NEW t \in Tasks, DeleteTask(t)
        PROVE  Claims'
    <2>1. /\ UNCHANGED <<filepath, req, emitted>> /\ UNCHANGED queue
          /\ \A g \in Files : status'[g] = "unborn" <=> status[g] = "unborn"
      BY <1>5 DEF DeleteTask, HasRow, RowStatus
    <2> QED
      BY <1>1, <2>1, ClaimsFrame
  <1>6. ASSUME NEW j \in Jobs, Enqueue(j)
        PROVE  Claims'
    <2>1. /\ UNCHANGED <<status, filepath, req>>
          /\ emitted' = emitted \ {j} /\ j \in emitted
      BY <1>6 DEF Enqueue, db
    <2>2. Queue!Added' \subseteq Queue!Added \cup {j}
      BY <1>0, <1>6, AddedGrows DEF Enqueue
    <2> QED
      BY <2>1, <2>2 DEF Claims
  <1>7. ASSUME NEW j \in Jobs, LoseEvent(j) \/ Retry(j)
        PROVE  Claims'
    <2>1. UNCHANGED <<status, filepath, req>> /\ emitted' \subseteq emitted
      BY <1>7 DEF LoseEvent, Retry, db
    <2>2. Queue!Added' \subseteq Queue!Added
      BY <1>0, <1>7, AddedKept DEF LoseEvent, Retry
    <2> QED
      BY <2>1, <2>2, ClaimsFrame
  <1>8. ASSUME NEW w \in Workers, StartJob(w) \/ FinishJob(w) \/ WorkerDies(w)
        PROVE  Claims'
    <2>1. UNCHANGED <<status, filepath, req, emitted>>
      BY <1>8 DEF StartJob, FinishJob, WorkerDies, db
    <2>2. Queue!Added' \subseteq Queue!Added
      BY <1>0, <1>8, AddedKept DEF StartJob, FinishJob, WorkerDies
    <2> QED
      BY <2>1, <2>2, ClaimsFrame
  <1>9. ASSUME NEW w \in Workers, UploadStep(w) \/ DeleteStep(w)
        PROVE  Claims'
    <2>1. UNCHANGED <<req, emitted>> /\ UNCHANGED queue
      BY <1>9
         DEF UploadStep, DeleteStep, StoreBlob, StoreFails, RecordStored, RecordFailed,
             RemoveBlob, RemoveFails, DropRow, MarkDeleteFailed
    <2>2. /\ \/ status' = status
             \/ \E g, to : HasRow(g) /\ to # "unborn" /\ status' = [status EXCEPT ![g] = to]
          /\ \/ filepath' = filepath
             \/ \E g : HasRow(g) /\ filepath' = [filepath EXCEPT ![g] = KeyOf[g]]
      BY <1>9
         DEF UploadStep, DeleteStep, StoreBlob, StoreFails, RecordStored, RecordFailed,
             RemoveBlob, RemoveFails, DropRow, MarkDeleteFailed, db
    <2>3. \A g : HasRow(g) => status[g] # "unborn"
      BY DEF HasRow, RowStatus
    <2>4. \A g \in Files : status'[g] = "unborn" <=> status[g] = "unborn"
      BY <1>0, <2>2, <2>3
    <2>5. \A g \in Files : status[g] = "unborn" => filepath'[g] = filepath[g]
      BY <1>0, <2>2, <2>3
    <2>6. \A q \in Requests : req'[q].todo \subseteq req[q].todo
      BY <2>1
    <2> QED
      BY <1>1, <2>1, <2>4, <2>5, <2>6, ClaimsFrame
  <1>10. CASE UNCHANGED vars
    <2>1. /\ status' = status /\ filepath' = filepath /\ req' = req /\ emitted' = emitted
          /\ UNCHANGED queue
      BY <1>10 DEF vars, queue
    <2>2. Queue!Added' = Queue!Added
      BY <1>1, <2>1
    <2> QED
      BY ONLY Claims, <2>1, <2>2 DEF Claims
  <1> QED
    BY <1>2, <1>3, <1>4, <1>5, <1>6, <1>7, <1>8, <1>9, <1>10 DEF Next, RequestStep

\* What FinishJob does to the lists, by how the handler ended.
LEMMA FinishMoves ==
  ASSUME NEW w \in Workers, FinishJob(w)
  PROVE  /\ active[w] # NoJob
         /\ UNCHANGED <<wait, req, emitted>>
         /\ active' = [active EXCEPT ![w] = NoJob]
         /\ work' = [work EXCEPT ![w] = "idle"]
         /\ \/ work[w] = "done" /\ delayed' = delayed
            \/ work[w] = "throwing" /\ delayed' \subseteq delayed \cup {active[w]}
  <1>1. CASE work[w] = "done" /\ Queue!Succeed(w)
    BY <1>1 DEF FinishJob, Queue!Succeed
  <1>2. CASE work[w] = "throwing" /\ Queue!Reject(w)
    BY <1>2 DEF FinishJob, Queue!Reject
  <1> QED
    BY <1>1, <1>2 DEF FinishJob

\* Nothing brings an upload back that is over: not a retry, not the queue, and a
\* file that has a row is not created again.
LEMMA OverKept ==
  ASSUME Books, Claims, ~Crashes, [Next]_vars,
         NEW f \in Files, status[f] # "unborn", UploadOver(f)
  PROVE  UploadOver(f)'
  <1> USE DEF UploadOver
  <1>0. /\ work \in [Workers -> WorkStates]
        /\ active \in [Workers -> Jobs \cup {NoJob}]
        /\ wait \in Seq(Jobs)
        /\ f # NoJob /\ f \notin Requests
    BY IdsAssumption DEF Books, TypeOK, Queue!QueueTypeOK
  <1>1. UNCHANGED queue => InList(wait)' = InList(wait) /\ delayed' = delayed /\ active' = active
    BY DEF queue
  <1>2. ASSUME NEW r \in Requests, NEW g \in Files, UploadCreate(r, g)
        PROVE  UploadOver(f)'
    <2>1. g \in req[r].todo /\ emitted' \subseteq emitted \cup {g} /\ work' = work /\ UNCHANGED queue
      BY <1>2 DEF UploadCreate
    <2>2. g # f
      BY <2>1 DEF Claims
    <2> QED
      BY <1>1, <2>1, <2>2
  <1>3. ASSUME NEW r \in Requests,
               \/ \E fs \in SUBSET Files : UploadBegin(r, fs)
               \/ \E g \in Files : DeleteBegin(r, g)
               \/ DeleteMark(r) \/ RequestDies(r)
        PROVE  UploadOver(f)'
    <2>1. emitted' \subseteq emitted \cup {r} /\ work' = work /\ UNCHANGED queue
      BY <1>3 DEF UploadBegin, DeleteBegin, DeleteMark, RequestDies
    <2> QED
      BY <1>0, <1>1, <2>1
  <1>4. ASSUME NEW t \in Tasks, DeleteTask(t)
        PROVE  UploadOver(f)'
    <2>1. emitted' = emitted /\ work' = work /\ UNCHANGED queue
      BY <1>4 DEF DeleteTask
    <2> QED
      BY <1>1, <2>1
  <1>5. ASSUME NEW j \in Jobs, Enqueue(j) \/ Retry(j)
        PROVE  UploadOver(f)'
    <2>1. /\ j # f /\ wait' = Append(wait, j)
          /\ emitted' \subseteq emitted /\ delayed' \subseteq delayed
          /\ UNCHANGED <<active, work>>
      BY <1>5 DEF Enqueue, Retry, Queue!Add, Queue!Promote
    <2>2. InList(wait') = InList(wait) \cup {j}
      BY <1>0, <2>1, AppendRange
    <2> QED
      BY <2>1, <2>2
  <1>6. ASSUME NEW w \in Workers, StartJob(w)
        PROVE  UploadOver(f)'
    <2>1. /\ wait # <<>> /\ wait' = Tail(wait)
          /\ UNCHANGED <<delayed, emitted>>
          /\ active' = [active EXCEPT ![w] = Head(wait)]
          /\ \E to : work' = [work EXCEPT ![w] = to]
      BY <1>6 DEF StartJob, Queue!Take
    <2>2. InList(wait) = InList(wait') \cup {Head(wait)}
      BY <1>0, <2>1, TailRange
    <2>3. \A v \in Workers : active'[v] = f => v # w /\ active[v] = f /\ work'[v] = work[v]
      BY <1>0, <2>1, <2>2
    <2> QED
      BY <2>1, <2>2, <2>3
  <1>7. ASSUME NEW w \in Workers, UploadStep(w) \/ DeleteStep(w)
        PROVE  UploadOver(f)'
    <2>1. /\ work[w] # "done" /\ UNCHANGED emitted /\ UNCHANGED queue
          /\ \E to : work' = [work EXCEPT ![w] = to]
      BY <1>7
         DEF UploadStep, DeleteStep, StoreBlob, StoreFails, RecordStored, RecordFailed,
             RemoveBlob, RemoveFails, DropRow, MarkDeleteFailed
    <2>2. active[w] # f
      BY <2>1
    <2>3. \A v \in Workers : active'[v] = f => v # w /\ work'[v] = work[v] /\ active[v] = f
      BY <1>0, <1>1, <2>1, <2>2
    <2> QED
      BY <1>1, <2>1, <2>3
  <1>8. ASSUME NEW w \in Workers, FinishJob(w)
        PROVE  UploadOver(f)'
    <2>1. f \notin delayed'
      BY <1>8, FinishMoves
    <2>2. \A v \in Workers : active'[v] = f => v # w /\ work'[v] = work[v] /\ active[v] = f
      BY <1>0, <1>8, FinishMoves
    <2>3. InList(wait)' = InList(wait) /\ emitted' = emitted
      BY <1>8, FinishMoves
    <2> QED
      BY <2>1, <2>2, <2>3
  <1>9. CASE UNCHANGED vars
    <2>1. emitted' = emitted /\ work' = work /\ UNCHANGED queue
      BY <1>9 DEF vars, queue
    <2> QED
      BY <1>1, <2>1
  <1> QED
    BY <1>2, <1>3, <1>4, <1>5, <1>6, <1>7, <1>8, <1>9 DEF Next, RequestStep, LoseEvent, WorkerDies

\* A path is recorded at the end of the file's upload, and none is taken back.
LEMMA PathsMove ==
  ASSUME Books, [Next]_vars, NEW f \in Files, filepath'[f] # filepath[f]
  PROVE  \E w \in Workers : /\ RecordStored(w) /\ active[w] = f
                            /\ HasRow(f) /\ filepath'[f] # NoPath
                            /\ ~DbAnswersLost => work'[w] = "done"
                            /\ status' = [status EXCEPT ![f] = "COMPLETED"]
  <1>1. PICK w \in Workers : RecordStored(w)
    BY DEF Next, vars, RequestStep, UploadStep, DeleteStep, UploadBegin, UploadCreate,
       DeleteBegin, DeleteMark, RequestDies, DeleteTask, Enqueue, LoseEvent, Retry, StartJob,
       FinishJob, WorkerDies, StoreBlob, StoreFails, RecordFailed, RemoveBlob,
       RemoveFails, DropRow, MarkDeleteFailed, db
  <1>2. /\ active[w] \in Files /\ filepath \in [Files -> Keys \cup {NoPath}]
        /\ work \in [Workers -> WorkStates]
    BY <1>1 DEF RecordStored, Books, TypeOK, Dispatched
  <1>3. active[w] = f
    BY <1>1, <1>2 DEF RecordStored
  <1> QED
    BY <1>1, <1>2, <1>3, KeyOfAssumption, IdsAssumption DEF RecordStored

\* Once a worker has recorded COMPLETED, nothing will run that upload again.
LEMMA StoredOver ==
  ASSUME Books, OnePlace, Claims, NEW w \in Workers, RecordStored(w), work'[w] = "done"
  PROVE  UploadOver(active[w])'
  <1> DEFINE f == active[w]
  <1>1. /\ UNCHANGED <<emitted, wait, delayed, active>>
        /\ work' = [work EXCEPT ![w] = "done"]
        /\ f \in Files
    BY DEF RecordStored, queue, Books, TypeOK, Dispatched
  <1>2. f \in Queue!Running
    BY <1>1, IdsAssumption DEF Queue!Running
  <1>3. f \notin InList(wait) \cup delayed \cup emitted
    BY <1>1, <1>2 DEF OnePlace, Claims, Queue!Added
  <1>4. \A v \in Workers : active[v] = f => v = w
    BY <1>1, IdsAssumption DEF OnePlace
  <1>5. work'[w] = "done"
    OBVIOUS
  <1> QED
    BY <1>1, <1>3, <1>4, <1>5 DEF UploadOver

\* Only the first look of a delete request reads a path.
LEMMA AskedBy ==
  ASSUME Books, [Next]_vars, NEW r \in Requests, req'[r].pc \in {"marking", "queued"}
  PROVE  \/ req[r].pc \in {"marking", "queued"} /\ req'[r].file = req[r].file
                                              /\ req'[r].path = req[r].path
         \/ \E f \in Files : /\ DeleteBegin(r, f) /\ req'[r].pc = "marking"
                             /\ req'[r].file = f /\ req'[r].path = filepath[f]
  <1>0. req \in [Requests -> Request]
    BY DEF Books, TypeOK, Request
  <1>1. CASE req' = req
    BY <1>1
  <1>2. ASSUME NEW q \in Requests, NEW fs \in SUBSET Files, UploadBegin(q, fs)
        PROVE  q # r /\ req'[r] = req[r]
    BY <1>0, <1>2 DEF UploadBegin, Request
  <1>3. ASSUME NEW q \in Requests, NEW f \in Files, UploadCreate(q, f)
        PROVE  q # r /\ req'[r] = req[r]
    BY <1>0, <1>3 DEF UploadCreate, Request
  <1>4. ASSUME NEW q \in Requests, RequestDies(q)
        PROVE  q # r /\ req'[r] = req[r]
    BY <1>0, <1>4 DEF RequestDies, Request
  <1>5. ASSUME NEW q \in Requests, NEW f \in Files, DeleteBegin(q, f)
        PROVE  \/ q = r /\ req'[r].pc = "marking" /\ req'[r].file = f /\ req'[r].path = filepath[f]
               \/ q # r /\ req'[r] = req[r]
    BY <1>0, <1>5 DEF DeleteBegin, Request
  <1>6. ASSUME NEW q \in Requests, DeleteMark(q)
        PROVE  \/ q = r /\ req[r].pc = "marking" /\ req'[r].file = req[r].file
                                              /\ req'[r].path = req[r].path
               \/ q # r /\ req'[r] = req[r]
    <2>1. q = r => req[r].pc = "marking"
      BY <1>6 DEF DeleteMark
    <2>2. \E pc : req' = [req EXCEPT ![q].pc = pc]
      BY <1>6 DEF DeleteMark
    <2> QED
      BY <1>0, <2>1, <2>2 DEF Request
  <1>7. \/ req' = req
        \/ \E q \in Requests :
             \/ \E fs \in SUBSET Files : UploadBegin(q, fs)
             \/ \E f \in Files : UploadCreate(q, f) \/ DeleteBegin(q, f)
             \/ DeleteMark(q) \/ RequestDies(q)
    BY DEF Next, vars, RequestStep, UploadStep, DeleteStep, DeleteTask, Enqueue, LoseEvent, Retry,
       StartJob, FinishJob, WorkerDies, StoreBlob, StoreFails, RecordStored,
       RecordFailed, RemoveBlob, RemoveFails, DropRow, MarkDeleteFailed
  <1> QED
    BY <1>1, <1>2, <1>3, <1>4, <1>5, <1>6, <1>7

\* A worker drops a row after its own call to the bucket; it holds the same delete
\* job, of a request that was accepted.
LEMMA DroppingFrom ==
  ASSUME Books, [Next]_vars, NEW w \in Workers, work'[w] = "dropping"
  PROVE  /\ active'[w] = active[w] /\ active[w] \in Requests
         /\ req[active[w]].pc = "queued" /\ req'[active[w]] = req[active[w]]
         /\ \/ work[w] = "dropping"
            \/ /\ work[w] = "removing" /\ req[active[w]].path # NoPath
               /\ RemoveBlob(w)
  <1>0. /\ work \in [Workers -> WorkStates]
        /\ active \in [Workers -> Jobs \cup {NoJob}]
    BY DEF Books, TypeOK, Queue!QueueTypeOK
  <1>1. \/ work[w] = "dropping" /\ active'[w] = active[w]
        \/ RemoveBlob(w)
    <2>1. ASSUME NEW v \in Workers, StartJob(v) \/ FinishJob(v) \/ WorkerDies(v)
          PROVE  v # w /\ work'[w] = work[w] /\ active'[w] = active[w]
      BY <1>0, <2>1 DEF StartJob, FinishJob, WorkerDies, Queue!Take, Queue!Succeed,
         Queue!Reject, Queue!Stall
    <2>2. ASSUME NEW v \in Workers, UploadStep(v) \/ DeleteStep(v)
          PROVE  \/ RemoveBlob(w)
                 \/ v # w /\ work'[w] = work[w] /\ active'[w] = active[w]
      BY <1>0, <2>2 DEF UploadStep, DeleteStep, StoreBlob, StoreFails, RecordStored,
         RecordFailed, RemoveBlob, RemoveFails, DropRow, MarkDeleteFailed, queue
    <2>3. \/ UNCHANGED <<work, active>>
          \/ \E v \in Workers : \/ StartJob(v) \/ FinishJob(v) \/ WorkerDies(v)
                                \/ UploadStep(v) \/ DeleteStep(v)
      <3>1. ASSUME NEW r, NEW f, NEW fs,
                   \/ UploadBegin(r, fs) \/ UploadCreate(r, f) \/ DeleteBegin(r, f)
                   \/ DeleteMark(r) \/ RequestDies(r) \/ DeleteTask(f)
            PROVE  UNCHANGED <<work, active>>
        BY <3>1 DEF UploadBegin, UploadCreate, DeleteBegin, DeleteMark, RequestDies,
           DeleteTask, queue
      <3>2. ASSUME NEW j, Enqueue(j) \/ LoseEvent(j) \/ Retry(j)
            PROVE  UNCHANGED <<work, active>>
        BY <3>2 DEF Enqueue, LoseEvent, Retry, Queue!Add, Queue!Promote, queue
      <3>3. CASE UNCHANGED vars
        BY <3>3 DEF vars
      <3>4. CASE Next
        BY <3>1, <3>2, <3>4, Zenon DEF Next, RequestStep
      <3> QED
        BY <3>3, <3>4
    <2> QED
      BY <2>1, <2>2, <2>3
  <1>2. RemoveBlob(w) => work[w] = "removing" /\ active'[w] = active[w]
    BY DEF RemoveBlob, queue
  <1>3. active[w] \in Requests /\ active'[w] = active[w]
    BY <1>1, <1>2 DEF Books, Dispatched
  <1>4. active[w] \in Queue!Live
    BY <1>3, ActiveLive, IdsAssumption
  <1>5. req[active[w]].pc = "queued"
    BY <1>3, <1>4 DEF Books, Accepted
  <1> QED
    BY <1>1, <1>2, <1>3, <1>5, AcceptedStays DEF Books, Dispatched

\* Without crashes and lost answers the upload of a recorded file stays over.
LEMMA RecordedNext ==
  ASSUME Books, OnePlace, Claims, Recorded, ~Crashes, ~DbAnswersLost, [Next]_vars
  PROVE  Recorded'
  <1>1. ASSUME NEW f \in Files, filepath'[f] # NoPath
        PROVE  UploadOver(f)'
    <2>1. CASE filepath'[f] = filepath[f]
      <3>1. UploadOver(f) /\ status[f] # "unborn"
        BY <1>1, <2>1 DEF Recorded, Claims
      <3> QED
        BY <3>1, OverKept
    <2>2. CASE filepath'[f] # filepath[f]
      <3>1. PICK w \in Workers : RecordStored(w) /\ active[w] = f /\ work'[w] = "done"
        BY <2>2, PathsMove
      <3>2. UploadOver(active[w])'
        BY <3>1, StoredOver
      <3>3. active' = active
        BY <3>1 DEF RecordStored, queue
      <3> QED
        BY <3>1, <3>2, <3>3
    <2> QED
      BY <2>1, <2>2
  <1>2. \A f \in Files : filepath[f] # NoPath => filepath'[f] # NoPath
    BY PathsMove
  <1>3. ASSUME NEW r \in Requests, req'[r].pc \in {"marking", "queued"}, req'[r].path # NoPath
        PROVE  filepath'[req'[r].file] # NoPath
    <2>1. CASE req[r].pc \in {"marking", "queued"} /\ req'[r].file = req[r].file
               /\ req'[r].path = req[r].path
      BY <1>2, <1>3, <2>1 DEF Recorded, Books, Accepted
    <2>2. CASE \E f \in Files : req'[r].file = f /\ req'[r].path = filepath[f]
      BY <1>2, <1>3, <2>2
    <2> QED
      BY <1>3, <2>1, <2>2, AskedBy
  <1>4. ASSUME NEW w \in Workers, work'[w] = "dropping"
        PROVE  req'[active'[w]].path # NoPath
    BY <1>4, DroppingFrom DEF Recorded
  <1> QED
    BY <1>1, <1>3, <1>4 DEF Recorded

----------------------------------------------------------------------------
(* No bytes without a row *)

(***************************************************************************)
(* Why NoOrphan holds: a worker empties the key before it drops the row,   *)
(* it has the key only if the file's upload was recorded, and a recorded   *)
(* upload is over, so nobody fills the key again in between or afterwards. *)
(***************************************************************************)
Emptied ==
  /\ \A f \in Files : status[f] = "removed" /\ TaskOf[f] \in tasks
                      => filepath[f] # NoPath /\ blobs[KeyOf[f]] # f
  /\ \A w \in Workers : work[w] = "dropping" =>
       LET f == req[active[w]].file IN blobs[KeyOf[f]] # f

\* Bytes come under a key by the running upload of a file, and otherwise only go.
LEMMA BytesComeFrom ==
  ASSUME Books, UniqueKeys, [Next]_vars,
         NEW f \in Files, blobs'[KeyOf[f]] = f, blobs[KeyOf[f]] # f
  PROVE  \E w \in Workers : active[w] = f /\ work[w] = "storing" /\ status' = status
  <1>0. /\ blobs \in [Keys -> Files \cup {NoFile}]
        /\ \A g \in Files : KeyOf[g] \in Keys
        /\ f # NoFile
    BY KeyOfAssumption, IdsAssumption DEF Books, TypeOK
  <1>1. ASSUME NEW w \in Workers, UploadStep(w) \/ DeleteStep(w)
        PROVE  \/ /\ work[w] = "storing" /\ active[w] \in Files /\ status' = status
                  /\ blobs' = [blobs EXCEPT ![KeyOf[active[w]]] = active[w]]
               \/ \E k : blobs' = [blobs EXCEPT ![k] = NoFile]
               \/ blobs' = blobs
    BY <1>1 DEF UploadStep, DeleteStep, StoreBlob, StoreFails, RecordStored, RecordFailed,
       RemoveBlob, RemoveFails, DropRow, MarkDeleteFailed, db, Books, Dispatched
  <1>2. \E w \in Workers : UploadStep(w) \/ DeleteStep(w)
    BY DEF Next, vars, RequestStep, UploadBegin, UploadCreate, DeleteBegin, DeleteMark,
       RequestDies, DeleteTask, Enqueue, LoseEvent, Retry, StartJob, FinishJob, WorkerDies
  <1>3. PICK w \in Workers : /\ work[w] = "storing" /\ active[w] \in Files /\ status' = status
                             /\ blobs' = [blobs EXCEPT ![KeyOf[active[w]]] = active[w]]
    BY <1>0, <1>1, <1>2
  <1>4. active[w] = f
    BY <1>0, <1>3 DEF UniqueKeys
  <1> QED
    BY <1>3, <1>4

\* A row goes by the job that emptied its key, or with its task.
LEMMA RowsGoBy ==
  ASSUME Books, [Next]_vars,
         NEW f \in Files, status'[f] = "removed", status[f] # "removed"
  PROVE  \/ TaskOf[f] \notin tasks'
         \/ /\ blobs' = blobs /\ filepath' = filepath
            /\ \E w \in Workers : work[w] = "dropping" /\ req[active[w]].file = f
  <1>0. status \in [Files -> RowStatus \cup NoRow]
    BY DEF Books, TypeOK
  <1>1. ASSUME NEW t \in Tasks, DeleteTask(t)
        PROVE  TaskOf[f] \notin tasks'
    BY <1>1 DEF DeleteTask
  <1>2. ASSUME NEW w \in Workers, DropRow(w)
        PROVE  /\ blobs' = blobs /\ filepath' = filepath
               /\ work[w] = "dropping" /\ req[active[w]].file = f
    <2>1. active[w] \notin Files
      BY <1>2, IdsAssumption DEF DropRow, Books, Dispatched
    <2> QED
      BY <1>0, <1>2, <2>1 DEF DropRow, FileOf
  <1>3. ASSUME NEW w \in Workers, UploadStep(w) \/ DeleteStep(w)
        PROVE  DropRow(w)
    <2>1. \/ status' = status
          \/ \E g, to : to # "removed" /\ status' = [status EXCEPT ![g] = to]
          \/ DropRow(w)
      BY <1>3 DEF UploadStep, DeleteStep, StoreBlob, StoreFails, RecordStored, RecordFailed,
         RemoveBlob, RemoveFails, MarkDeleteFailed, db
    <2> QED
      BY <1>0, <2>1
  <1>4. ASSUME NEW r \in Requests, NEW g \in Files, UploadCreate(r, g) \/ DeleteMark(r)
        PROVE  FALSE
    <2>1. \/ status' = status
          \/ \E h, to : to # "removed" /\ status' = [status EXCEPT ![h] = to]
      BY <1>4 DEF UploadCreate, DeleteMark
    <2> QED
      BY <1>0, <2>1
  <1> QED
    BY <1>1, <1>2, <1>3, <1>4
       DEF Next, vars, RequestStep, UploadBegin, DeleteBegin, RequestDies, Enqueue,
           LoseEvent, Retry, StartJob, FinishJob, WorkerDies, db

\* Without crashes and lost answers bytes leave before the row does, and no later upload brings them
\* back.
LEMMA EmptiedNext ==
  ASSUME Books, OnePlace, Claims, Recorded, Emptied, UniqueKeys, ~Crashes, ~DbAnswersLost,
         [Next]_vars
  PROVE  Emptied'
  <1>0. tasks' \subseteq tasks
    BY DEF Next, vars, RequestStep, UploadBegin, UploadCreate, DeleteBegin, DeleteMark,
       RequestDies, DeleteTask, Enqueue, LoseEvent, Retry, StartJob, FinishJob, WorkerDies,
       UploadStep, DeleteStep, StoreBlob, StoreFails, RecordStored, RecordFailed, RemoveBlob,
       RemoveFails, DropRow, MarkDeleteFailed, db
  \* A key that was emptied stays empty.
  <1>1. ASSUME NEW f \in Files, filepath[f] # NoPath, blobs[KeyOf[f]] # f
        PROVE  filepath'[f] # NoPath /\ blobs'[KeyOf[f]] # f
    <2>1. filepath'[f] # NoPath
      BY <1>1, PathsMove
    <2>2. \A w \in Workers : active[w] = f => work[w] = "done"
      BY <1>1 DEF Recorded, UploadOver
    <2> QED
      BY <1>1, <2>1, <2>2, BytesComeFrom
  <1>2. ASSUME NEW w \in Workers, work[w] = "dropping"
        PROVE  LET f == req[active[w]].file IN
                 f \in Files /\ filepath[f] # NoPath /\ blobs[KeyOf[f]] # f
    <2>1. active[w] \in Requests
      BY <1>2 DEF Books, Dispatched
    <2>2. req[active[w]].pc = "queued"
      BY <2>1, ActiveLive, IdsAssumption DEF Books, Accepted
    <2>3. req[active[w]].path # NoPath
      BY <1>2 DEF Recorded
    <2> QED
      BY <1>2, <2>1, <2>2, <2>3 DEF Books, Accepted, Recorded, Emptied
  <1>3. ASSUME NEW f \in Files, status'[f] = "removed", TaskOf[f] \in tasks'
        PROVE  filepath'[f] # NoPath /\ blobs'[KeyOf[f]] # f
    <2>1. CASE status[f] = "removed"
      <3>1. filepath[f] # NoPath /\ blobs[KeyOf[f]] # f
        BY <1>0, <1>3, <2>1 DEF Emptied
      <3> QED
        BY <1>1, <3>1
    <2>2. CASE status[f] # "removed"
      <3>1. PICK w \in Workers : work[w] = "dropping" /\ req[active[w]].file = f
        BY <1>3, <2>2, RowsGoBy
      <3>2. filepath[f] # NoPath /\ blobs[KeyOf[f]] # f
        BY <1>2, <3>1
      <3> QED
        BY <1>1, <3>2
    <2> QED
      BY <2>1, <2>2
  <1>4. ASSUME NEW w \in Workers, work'[w] = "dropping"
        PROVE  blobs'[KeyOf[req'[active'[w]].file]] # req'[active'[w]].file
    <2> DEFINE r == active[w]
    <2>1. /\ active'[w] = r /\ req'[r] = req[r] /\ r \in Requests
          /\ req[r].pc = "queued" /\ req[r].file \in Files
          /\ req[r].path \in {NoPath, KeyOf[req[r].file]}
      BY <1>4, DroppingFrom DEF Books, Accepted
    <2>2. CASE work[w] = "dropping"
      BY <1>1, <1>2, <2>1, <2>2
    <2>3. CASE req[r].path # NoPath /\ RemoveBlob(w)
      <3>1. /\ blobs' = [blobs EXCEPT ![req[r].path] = NoFile]
            /\ blobs \in [Keys -> Files \cup {NoFile}]
            /\ KeyOf[req[r].file] \in Keys /\ NoFile \notin Files
        BY <2>1, <2>3, KeyOfAssumption, IdsAssumption DEF RemoveBlob, PathOf, Books, TypeOK
      <3> QED
        BY <2>1, <2>3, <3>1
    <2> QED
      BY <1>4, <2>2, <2>3, DroppingFrom
  <1> QED
    BY <1>3, <1>4 DEF Emptied

\* At first nothing is recorded and nothing is stored.
LEMMA RecordedInit == Init => Recorded /\ Emptied
  BY IdsAssumption DEF Init, Recorded, UploadOver, Emptied, Queue!QueueInit

\* One file, one upload: no file is claimed twice, and none is inserted, announced or
\* queued twice.
THEOREM ClaimsKept == Spec => [](Books /\ OnePlace /\ Claims)
  <1>1. Spec => []OnePlace
    BY OneCopyHolds, OnePlaceIsOneCopy, PTL
  <1>2. Books /\ Claims /\ [Next]_vars => Claims'
    BY ClaimsNext
  <1> QED
    BY <1>1, <1>2, ClaimsInit, BooksKept, PTL DEF Spec

\* While no process dies and no answer of the database is lost, a file whose path is
\* recorded is not uploaded again by any retry.
THEOREM RecordedKept == Spec => [](~Crashes /\ ~DbAnswersLost => Recorded)
  <1>1. Books /\ OnePlace /\ Claims /\ (~Crashes /\ ~DbAnswersLost => Recorded) /\ [Next]_vars
          => (~Crashes /\ ~DbAnswersLost => Recorded)'
    BY RecordedNext
  <1> QED
    BY <1>1, RecordedInit, ClaimsKept, PTL DEF Spec

\* NoOrphan: while names do not collide, no process dies and no database call is
\* applied without its answer, a row that goes while its task stays leaves none of the
\* file's bytes, whatever the bucket does and however often the database refuses.  With
\* a lost answer it is false: the client sees COMPLETED and deletes the file, and the
\* retry of its upload stores the bytes again.
THEOREM NoOrphanHolds == Spec => []NoOrphan
  <1> DEFINE Inv == UniqueKeys /\ ~Crashes /\ ~DbAnswersLost => Emptied
  <1>1. /\ Books /\ OnePlace /\ Claims /\ (~Crashes /\ ~DbAnswersLost => Recorded)
        /\ Inv /\ [Next]_vars
        => Inv'
    BY EmptiedNext DEF UniqueKeys
  <1>2. Inv => NoOrphan
    BY DEF Emptied, NoOrphan
  <1> QED
    BY <1>1, <1>2, RecordedInit, RecordedKept, ClaimsKept, PTL DEF Spec

----------------------------------------------------------------------------
(* The rows live the life the endpoints promise *)

(***************************************************************************)
(* With clients that delete only what they saw stored: the path says which *)
(* half of its life a file is in, a deletion that was asked for is of a    *)
(* stored file, and once accepted it is what the row shows.                *)
(***************************************************************************)
Going == {"DELETING", "DELETE_FAILED", "removed"}

Visible ==
  /\ \A f \in Files : filepath[f] = NoPath
                        => status[f] \in {"unborn", "PENDING", "FAILED", "removed"}
  /\ \A f \in Files : filepath[f] # NoPath => status[f] \in {"COMPLETED"} \cup Going
  /\ \A r \in Requests :
       /\ req[r].pc \in {"marking", "queued"} => req[r].path # NoPath
       /\ req[r].pc = "queued" => status[req[r].file] \in Going

Sets(f, to) == tasks' = tasks /\ status' = [status EXCEPT ![f] = to]

\* What a step may show of one file, before and after its path is recorded.
Uploads(f) ==
  /\ filepath[f] = NoPath
  /\ \/ status[f] = "unborn" /\ TaskOf[f] \in tasks /\ Sets(f, "PENDING")
        /\ filepath' = filepath
     \/ status[f] \in {"PENDING", "FAILED"} /\ Sets(f, "FAILED") /\ filepath' = filepath
     \/ status[f] \in {"PENDING", "FAILED"} /\ Sets(f, "COMPLETED")
        /\ filepath' = [filepath EXCEPT ![f] = KeyOf[f]]

Deletes(f) ==
  /\ filepath[f] # NoPath /\ filepath' = filepath
  /\ \/ status[f] \in {"COMPLETED", "DELETING", "DELETE_FAILED"} /\ Sets(f, "DELETING")
     \/ status[f] \in {"DELETING", "DELETE_FAILED"}
        /\ (Sets(f, "DELETE_FAILED") \/ Sets(f, "removed"))

\* A step changes the visible rows as one upload, one deletion or the task's end does.
LEMMA LifeSteps ==
  ASSUME Books, Claims, Recorded, Visible, [Next]_vars
  PROVE  \/ UNCHANGED <<tasks, status, filepath>>
         \/ \E f \in Files : Uploads(f) \/ Deletes(f)
         \/ \E t \in Tasks : DeleteTask(t)
  <1>0. \A w \in Workers : active[w] \in Requests =>
          LET f == req[active[w]].file IN
            /\ f \in Files /\ filepath[f] # NoPath /\ FileOf(active[w]) = f
            /\ HasRow(f) => status[f] \in {"DELETING", "DELETE_FAILED"}
    <2> SUFFICES ASSUME NEW w \in Workers, active[w] \in Requests
                 PROVE  LET f == req[active[w]].file IN
                          /\ f \in Files /\ filepath[f] # NoPath /\ FileOf(active[w]) = f
                          /\ HasRow(f) => status[f] \in {"DELETING", "DELETE_FAILED"}
      OBVIOUS
    <2>1. req[active[w]].pc = "queued"
      BY ActiveLive, IdsAssumption DEF Books, Accepted
    <2>2. active[w] \notin Files
      BY IdsAssumption
    <2> QED
      BY <2>1, <2>2 DEF Books, Accepted, Recorded, Visible, Going, FileOf, HasRow, RowStatus
  <1>1. \A w \in Workers : work[w] \in {"recording", "failing"} =>
          /\ active[w] \in Files /\ filepath[active[w]] = NoPath
          /\ HasRow(active[w]) => status[active[w]] \in {"PENDING", "FAILED"}
    <2>1. \A w \in Workers : work[w] \in {"recording", "failing"} =>
            active[w] \in Files /\ filepath[active[w]] = NoPath
      BY DEF Books, Dispatched, Recorded, UploadOver
    <2> QED
      BY <2>1 DEF Visible, HasRow, RowStatus
  <1>2. ASSUME NEW r \in Requests, NEW f \in Files, UploadCreate(r, f)
        PROVE  UNCHANGED <<tasks, status, filepath>> \/ Uploads(f)
    <2>1. status[f] = "unborn" /\ filepath[f] = NoPath
      BY <1>2 DEF UploadCreate, Claims
    <2> QED
      BY <1>2, <2>1 DEF UploadCreate, Uploads, Sets
  <1>3. ASSUME NEW r \in Requests, DeleteMark(r)
        PROVE  UNCHANGED <<tasks, status, filepath>> \/ \E f \in Files : Deletes(f)
    <2> DEFINE f == req[r].file
    <2>1. f \in Files /\ filepath[f] # NoPath
      BY <1>3 DEF DeleteMark, Books, Accepted, Visible, Recorded
    <2>2. HasRow(f) => status[f] \in {"COMPLETED", "DELETING", "DELETE_FAILED"}
      BY <2>1 DEF Visible, Going, HasRow, RowStatus
    <2> QED
      BY <1>3, <2>1, <2>2 DEF DeleteMark, Deletes, Sets
  <1>4. ASSUME NEW w \in Workers, RecordStored(w) \/ RecordFailed(w)
        PROVE  UNCHANGED <<tasks, status, filepath>> \/ Uploads(active[w])
    BY <1>1, <1>4 DEF RecordStored, RecordFailed, Uploads, Sets
  <1>5. ASSUME NEW w \in Workers, DropRow(w) \/ MarkDeleteFailed(w)
        PROVE  UNCHANGED <<tasks, status, filepath>> \/ \E f \in Files : Deletes(f)
    <2> DEFINE f == req[active[w]].file
    <2>1. active[w] \in Requests
      BY <1>5 DEF DropRow, MarkDeleteFailed, Books, Dispatched
    <2>2. /\ f \in Files /\ filepath[f] # NoPath /\ FileOf(active[w]) = f
          /\ HasRow(f) => status[f] \in {"DELETING", "DELETE_FAILED"}
      BY <1>0, <2>1
    <2> QED
      BY <1>5, <2>2 DEF DropRow, MarkDeleteFailed, Deletes, Sets
  <1>6. ASSUME NEW w \in Workers, UploadStep(w) \/ DeleteStep(w)
        PROVE  UNCHANGED <<tasks, status, filepath>> \/ \E f \in Files : Uploads(f) \/ Deletes(f)
    <2>1. CASE StoreBlob(w) \/ StoreFails(w) \/ RemoveBlob(w) \/ RemoveFails(w)
      BY <2>1 DEF StoreBlob, StoreFails, RemoveBlob, RemoveFails, db
    <2>2. RecordStored(w) \/ RecordFailed(w) => active[w] \in Files
      BY <1>1 DEF RecordStored, RecordFailed
    <2> QED
      BY <1>4, <1>5, <1>6, <2>1, <2>2 DEF UploadStep, DeleteStep
  <1> QED
    BY <1>2, <1>3, <1>6
       DEF Next, vars, RequestStep, UploadBegin, DeleteBegin, RequestDies, Enqueue,
           LoseEvent, Retry, StartJob, FinishJob, WorkerDies, db

\* A deletion is accepted in the step that shows it.
LEMMA AcceptedBy ==
  ASSUME Books, [Next]_vars, NEW r \in Requests, req'[r].pc = "queued", req[r].pc # "queued"
  PROVE  /\ req[r].file \in Files /\ req'[r].file = req[r].file
         /\ status'[req[r].file] = "DELETING"
  <1>0. req \in [Requests -> Request] /\ status \in [Files -> RowStatus \cup NoRow]
    BY DEF Books, TypeOK, Request
  <1>1. ASSUME NEW q \in Requests,
               \/ \E fs \in SUBSET Files : UploadBegin(q, fs)
               \/ \E f \in Files : UploadCreate(q, f) \/ DeleteBegin(q, f)
               \/ RequestDies(q)
        PROVE  FALSE
    <2>1. ASSUME NEW fs \in SUBSET Files, UploadBegin(q, fs) PROVE FALSE
      BY <1>0, <2>1 DEF UploadBegin, Request
    <2>2. ASSUME NEW f \in Files, UploadCreate(q, f) PROVE FALSE
      BY <1>0, <2>2 DEF UploadCreate, Request
    <2>3. ASSUME NEW f \in Files, DeleteBegin(q, f) PROVE FALSE
      BY <1>0, <2>3 DEF DeleteBegin, Request
    <2>4. ASSUME RequestDies(q) PROVE FALSE
      BY <1>0, <2>4 DEF RequestDies, Request
    <2> QED
      BY <1>1, <2>1, <2>2, <2>3, <2>4
  <1>2. ASSUME NEW q \in Requests, DeleteMark(q)
        PROVE  /\ req[r].file \in Files /\ req'[r].file = req[r].file
               /\ status'[req[r].file] = "DELETING"
    <2>1. q = r
      BY <1>0, <1>2 DEF DeleteMark, Request
    <2>2. /\ status' = [status EXCEPT ![req[r].file] = "DELETING"]
          /\ req' = [req EXCEPT ![r].pc = "queued"]
          /\ req[r].file \in Files
      BY <1>0, <1>2, <2>1 DEF DeleteMark, Request, Books, Accepted
    <2> QED
      BY <1>0, <2>2 DEF Request
  <1>3. \/ req' = req
        \/ \E q \in Requests :
             \/ \E fs \in SUBSET Files : UploadBegin(q, fs)
             \/ \E f \in Files : UploadCreate(q, f) \/ DeleteBegin(q, f)
             \/ DeleteMark(q) \/ RequestDies(q)
    BY DEF Next, vars, RequestStep, UploadStep, DeleteStep, DeleteTask, Enqueue, LoseEvent, Retry,
       StartJob, FinishJob, WorkerDies, StoreBlob, StoreFails, RecordStored,
       RecordFailed, RemoveBlob, RemoveFails, DropRow, MarkDeleteFailed
  <1> QED
    BY <1>1, <1>2, <1>3

\* For patient clients a deletion under way is that of a row whose path is recorded.
LEMMA VisibleNext ==
  ASSUME Books, Claims, Recorded, Visible, PatientClients, [Next]_vars
  PROVE  Visible'
  <1>0. /\ status \in [Files -> RowStatus \cup NoRow]
        /\ filepath \in [Files -> Keys \cup {NoPath}]
        /\ \A f \in Files : KeyOf[f] # NoPath
    BY KeyOfAssumption, IdsAssumption DEF Books, TypeOK
  \* The half a file is in, and what is going stays so.
  <1> DEFINE Fits(f) ==
        /\ filepath'[f] = NoPath => status'[f] \in {"unborn", "PENDING", "FAILED", "removed"}
        /\ filepath'[f] # NoPath => status'[f] \in {"COMPLETED"} \cup Going
        /\ filepath[f] # NoPath /\ status[f] \in Going => status'[f] \in Going
  <1>1. ASSUME NEW f \in Files
        PROVE  Fits(f)
    <2> USE DEF Going
    <2>1. CASE UNCHANGED <<tasks, status, filepath>>
      BY <2>1 DEF Visible
    <2>2. ASSUME NEW g \in Files, Uploads(g)
          PROVE  Fits(f)
      BY <1>0, <2>2 DEF Uploads, Sets, Visible
    <2>3. ASSUME NEW g \in Files, Deletes(g)
          PROVE  Fits(f)
      BY <1>0, <2>3 DEF Deletes, Sets, Visible
    <2>4. ASSUME NEW t \in Tasks, DeleteTask(t)
          PROVE  Fits(f)
      BY <2>4 DEF DeleteTask, Visible
    <2> QED
      BY <2>1, <2>2, <2>3, <2>4, LifeSteps
  <1>2. ASSUME NEW r \in Requests, req'[r].pc \in {"marking", "queued"}
        PROVE  req'[r].path # NoPath
    <2>1. \A f \in Files : DeleteBegin(r, f) => filepath[f] # NoPath
      BY DEF DeleteBegin
    <2> QED
      BY <1>2, <2>1, AskedBy DEF Visible
  <1>3. ASSUME NEW r \in Requests, req'[r].pc = "queued"
        PROVE  status'[req'[r].file] \in Going
    <2>1. CASE req[r].pc = "queued"
      <3>1. req'[r] = req[r] /\ req[r].file \in Files
        BY <2>1, AcceptedStays DEF Books, Accepted
      <3>2. filepath[req[r].file] # NoPath /\ status[req[r].file] \in Going
        BY <2>1 DEF Visible, Recorded
      <3> QED
        BY <1>1, <3>1, <3>2
    <2>2. CASE req[r].pc # "queued"
      BY <1>3, <2>2, AcceptedBy DEF Going
    <2> QED
      BY <2>1, <2>2
  <1> QED
    BY <1>1, <1>2, <1>3 DEF Visible

\* KeepsLifecycle: for clients that delete only what they saw stored, while no process
\* dies and no database call is applied without its answer, every step of requests,
\* queue and workers is a step of the files' promised life or shows nothing, whatever
\* the bucket does and however often the database refuses.  With a lost answer it is
\* false: the catch block writes FAILED over a COMPLETED that clients saw.
THEOREM KeepsLifecycleHolds ==
  ASSUME PatientClients, ~Crashes, ~DbAnswersLost
  PROVE  Spec => KeepsLifecycle
  <1>1. Init => Lifecycle!LifeInit
    BY DEF Init, Lifecycle!LifeInit
  <1>2. Init => Visible
    BY DEF Init, Visible
  <1>3. Books /\ Claims /\ Recorded /\ Visible /\ [Next]_vars => Visible'
    BY VisibleNext
  <1>4. Books /\ Claims /\ Recorded /\ Visible /\ [Next]_vars
          => [Lifecycle!LifeNext]_(Lifecycle!lifeVars)
    <2> SUFFICES ASSUME Books, Claims, Recorded, Visible, [Next]_vars
                 PROVE  [Lifecycle!LifeNext]_(Lifecycle!lifeVars)
      OBVIOUS
    <2> USE DEF Lifecycle!lifeVars, Lifecycle!Becomes
    <2>0. status \in [Files -> RowStatus \cup NoRow]
      BY DEF Books, TypeOK
    <2>1. CASE UNCHANGED <<tasks, status, filepath>>
      BY <2>1
    <2>2. ASSUME NEW f \in Files, Uploads(f)
          PROVE  Lifecycle!LifeNext \/ UNCHANGED Lifecycle!lifeVars
      <3>1. CASE status[f] = "unborn" /\ TaskOf[f] \in tasks /\ Sets(f, "PENDING")
        BY <3>1 DEF Sets, Lifecycle!LifeNext, Lifecycle!Submit
      <3>2. CASE status[f] \in {"PENDING", "FAILED"} /\ Sets(f, "COMPLETED")
        BY <3>2 DEF Sets, Lifecycle!LifeNext, Lifecycle!Stored
      <3>3. CASE status[f] = "PENDING" /\ Sets(f, "FAILED")
        BY <3>3 DEF Sets, Lifecycle!LifeNext, Lifecycle!NotStored
      <3>4. CASE status[f] = "FAILED" /\ Sets(f, "FAILED")
        BY <2>0, <3>4 DEF Sets
      <3> QED
        BY <2>2, <3>1, <3>2, <3>3, <3>4 DEF Uploads
    <2>3. ASSUME NEW f \in Files, Deletes(f)
          PROVE  Lifecycle!LifeNext \/ UNCHANGED Lifecycle!lifeVars
      <3>1. CASE status[f] \in {"COMPLETED", "DELETE_FAILED"} /\ Sets(f, "DELETING")
        BY <3>1 DEF Sets, Lifecycle!LifeNext, Lifecycle!AskDelete
      <3>2. CASE status[f] \in {"DELETING", "DELETE_FAILED"} /\ Sets(f, "removed")
        BY <3>2 DEF Sets, Lifecycle!LifeNext, Lifecycle!Deleted
      <3>3. CASE status[f] = "DELETING" /\ Sets(f, "DELETE_FAILED")
        BY <3>3 DEF Sets, Lifecycle!LifeNext, Lifecycle!NotDeleted
      <3>4. CASE \E to : status[f] = to /\ Sets(f, to)
        BY <2>0, <3>4 DEF Sets
      <3> QED
        BY <2>3, <3>1, <3>2, <3>3, <3>4 DEF Deletes
    <2>4. ASSUME NEW t \in Tasks, DeleteTask(t)
          PROVE  Lifecycle!LifeNext
      <3>1. \A f \in Files : HasRow(f) \/ status[f] \in NoRow
        BY <2>0 DEF HasRow
      <3>2. status' = [f \in Files |-> IF TaskOf[f] = t /\ status[f] # "unborn"
                                      THEN "removed" ELSE status[f]]
        BY <2>4, <3>1 DEF DeleteTask, HasRow, RowStatus, NoRow
      <3>3. Lifecycle!Close(t)
        BY <2>4, <3>2 DEF DeleteTask, Lifecycle!Close
      <3> QED
        BY <3>3 DEF Lifecycle!LifeNext
    <2> QED
      BY <2>1, <2>2, <2>3, <2>4, LifeSteps
  <1> QED
    BY <1>1, <1>2, <1>3, <1>4, ClaimsKept, RecordedKept, PTL
       DEF Spec, KeepsLifecycle, Lifecycle!LifeSpec

----------------------------------------------------------------------------
(* The end of the work *)

\* No job is on its way to the queue, in it, or with a worker.
QueueDry == \A j \in Jobs : ~InFlight(j)

\* Without crashes and with a database that answers, uploads and deletions end if their
\* jobs do: no handler returns, and no request is answered, with a row left behind that
\* says work is going on.  That the queue runs dry under the fairness of FairSpec is
\* the part that is left to TLC.
THEOREM WorkEndsIfDrained ==
  ASSUME ~Crashes, ~DbFails, ~DbAnswersLost
  PROVE  Spec /\ <>[]QueueDry => WorkEnds
  <1>1. ASSUME NEW f \in Files
        PROVE  Spec /\ <>[]QueueDry =>
                 /\ (status[f] = "PENDING") ~> (status[f] # "PENDING")
                 /\ (status[f] = "DELETING") ~> (status[f] # "DELETING")
    <2>1. NoStuckRow /\ QueueDry => status[f] # "PENDING" /\ status[f] # "DELETING"
      BY DEF NoStuckRow, QueueDry, DeleteJobs, Jobs
    <2> QED
      BY <2>1, NoStuckRowHolds, PTL
  <1> QED
    BY <1>1 DEF WorkEnds, Lifecycle!Progress
=============================================================================
