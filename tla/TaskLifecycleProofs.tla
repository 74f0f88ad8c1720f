------------------------ MODULE TaskLifecycleProofs ------------------------
(***************************************************************************)
(* Theorems about TaskLifecycle, for any tasks, people, teams, companies   *)
(* and number of overlapping requests.                                     *)
(***************************************************************************)
EXTENDS TaskLifecycle, TLAPS

Stages == TaskStatus \cup {"unborn", "removed"}

\* What the proofs need of the types.
Shape ==
  /\ status \in [Tasks -> Stages]
  /\ req \in [Requests -> ReqType]
  /\ serial \in BOOLEAN

\* A task that is being created has no row yet and nobody else works on it; one that
\* is updated or deleted has had a row.
Ages ==
  \A r \in Requests :
    /\ req[r].pc = "creating" =>
         status[req[r].task] = "unborn" /\ InService(req[r].task) = {r}
    /\ req[r].pc \in {"updating", "deleting"} => status[req[r].task] # "unborn"

\* A status an update is about to write is CANCELLED exactly if the task is.
Settled ==
  \A r \in Requests :
    req[r].pc = "updating" /\ HasRow(req[r].task) =>
      (req[r].status = "CANCELLED" <=> status[req[r].task] = "CANCELLED")

\* Before any overlap a task has one update at most, and the status that update saw is
\* the one it replaces.
Alone ==
  serial =>
    /\ \A r, q \in Requests :
         req[r].pc = "updating" /\ req[q].pc = "updating" /\ req[r].task = req[q].task => r = q
    /\ \A r \in Requests :
         req[r].pc = "updating" /\ HasRow(req[r].task) =>
           \/ req[r].status = status[req[r].task]
           \/ <<status[req[r].task], req[r].status>> \in Transitions

Inv == Shape /\ Ages /\ Settled /\ Alone

\* At first no task has a row and no request is under way.
LEMMA InvInit == Init => Inv
  BY DEF Init, Inv, Shape, Ages, Settled, Alone, Stages, Idle, ReqType, InService

\* A status is none of the marks that are used beside it.
LEMMA StatusFacts == "unborn" \notin TaskStatus /\ "removed" \notin TaskStatus
  BY DEF TaskStatus

----------------------------------------------------------------------------
(* Requests that arrive *)

\* A creation begins: its task has no row and nobody else works on it.
LEMMA CreateBeginInv ==
  ASSUME Inv, NEW r \in Requests, NEW u \in Users, NEW t \in Tasks, NEW tm \in Teams,
         NEW s \in TaskStatus, NEW a \in Users \cup {NoUser},
         CreateBegin(r, u, t, tm, s, a)
  PROVE  Inv'
  <1> DEFINE new == [pc |-> "creating", by |-> u, task |-> t, team |-> tm,
                     status |-> s, assign |-> a]
  <1>1. /\ status' = status
        /\ req' = [req EXCEPT ![r] = new]
        /\ req[r].pc = "idle" /\ status[t] = "unborn" /\ InService(t) = {}
        /\ serial' \in BOOLEAN
        /\ serial' => serial
    BY DEF CreateBegin, Enter, Inv, Shape
  <1>2. /\ new \in ReqType
        /\ new.pc = "creating" /\ new.task = t /\ new.status = s
    BY DEF ReqType
  <1> HIDE DEF new
  <1>3. \A q \in Requests : req'[q] = IF q = r THEN new ELSE req[q]
    BY <1>1 DEF Inv, Shape
  <1>4. Shape'
    BY <1>1, <1>2 DEF Inv, Shape
  <1>5. \A q \in Requests \ {r} : req[q].pc \in {"creating", "updating", "deleting"} =>
          req[q].task # t
    BY <1>1 DEF InService
  <1>6. Ages'
    <2>1. InService(t)' = {r}
      BY <1>1, <1>2, <1>3 DEF InService
    <2>2. \A q \in Requests \ {r} : req[q].pc = "creating" =>
            InService(req[q].task)' = InService(req[q].task)
      BY <1>1, <1>2, <1>3, <1>5 DEF InService
    <2> QED
      BY <1>1, <1>2, <1>3, <2>1, <2>2 DEF Inv, Ages
  <1>7. Settled'
    BY <1>1, <1>2, <1>3 DEF Inv, Settled, HasRow
  <1>8. Alone'
    BY <1>1, <1>2, <1>3, <1>5 DEF Inv, Alone, HasRow
  <1> QED
    BY <1>4, <1>6, <1>7, <1>8 DEF Inv

\* An update or a deletion enters.
LEMMA EnterInv ==
  ASSUME Inv, NEW r \in Requests, NEW t \in Tasks, NEW new \in ReqType,
         req[r].pc = "idle", Enter(r, t, new), status' = status, HasRow(t),
         new.task = t, new.pc \in {"updating", "deleting"},
         new.pc = "updating" =>
           new.status = status[t] \/ <<status[t], new.status>> \in Transitions
  PROVE  Inv'
  <1>1. /\ req' = [req EXCEPT ![r] = new]
        /\ serial' \in BOOLEAN
        /\ serial' => serial /\ (new.pc = "updating" => Updating(t) = {})
    BY DEF Enter, Inv, Shape
  <1>2. \A q \in Requests : req'[q] = IF q = r THEN new ELSE req[q]
    BY <1>1 DEF Inv, Shape
  <1>3. Shape'
    BY <1>1 DEF Inv, Shape
  <1>4. status[t] \in TaskStatus /\ status[t] # "unborn"
    BY StatusFacts DEF HasRow
  <1>5. Ages'
    <2>1. \A q \in Requests : req'[q].pc = "creating" =>
            InService(req[q].task)' = InService(req[q].task)
      BY <1>2, <1>4 DEF InService, Inv, Ages
    <2> QED
      BY <1>2, <1>4, <2>1 DEF Inv, Ages
  <1>6. Settled'
    <2>1. new.pc = "updating" =>
            (new.status = "CANCELLED" <=> status[t] = "CANCELLED")
      BY DEF Transitions
    <2> QED
      BY <1>2, <2>1 DEF Inv, Settled, HasRow
  <1>7. Alone'
    <2>1. \A q \in Requests : req[q].pc = "updating" /\ req[q].task = t => q \in Updating(t)
      BY DEF Updating, InService
    <2>2. serial' => \A p, q \in Requests :
            req'[p].pc = "updating" /\ req'[q].pc = "updating" /\ req'[p].task = req'[q].task => p = q
      BY <1>1, <1>2, <2>1 DEF Inv, Alone
    <2>3. serial' => \A q \in Requests :
            req'[q].pc = "updating" /\ HasRow(req'[q].task) =>
              \/ req'[q].status = status[req'[q].task]
              \/ <<status[req'[q].task], req'[q].status>> \in Transitions
      BY <1>1, <1>2 DEF Inv, Alone
    <2> QED
      BY <2>2, <2>3 DEF Alone, HasRow
  <1> QED
    BY <1>3, <1>5, <1>6, <1>7 DEF Inv

\* An update is accepted for a task that exists, along the transition table.
LEMMA UpdateBeginInv ==
  ASSUME Inv, NEW r \in Requests, NEW u \in Users, NEW t \in Tasks,
         NEW s \in TaskStatus, NEW a \in Users \cup {NoUser, Same},
         UpdateBegin(r, u, t, s, a)
  PROVE  Inv'
  <1> DEFINE new == [pc |-> "updating", by |-> u, task |-> t, status |-> s, assign |-> a]
  <1>1. new \in ReqType /\ new.pc = "updating" /\ new.task = t /\ new.status = s
    BY DEF ReqType
  <1>2. /\ req[r].pc = "idle" /\ HasRow(t) /\ Enter(r, t, new) /\ status' = status
        /\ s = status[t] \/ <<status[t], s>> \in Transitions
    BY DEF UpdateBegin
  <1> QED
    <2> HIDE DEF new
    <2> QED
      BY <1>1, <1>2, EnterInv

\* A deletion is accepted for a task that exists.
LEMMA DeleteBeginInv ==
  ASSUME Inv, NEW r \in Requests, NEW u \in Users, NEW t \in Tasks, DeleteBegin(r, u, t)
  PROVE  Inv'
  <1> DEFINE new == [pc |-> "deleting", by |-> u, task |-> t]
  <1>1. new \in ReqType /\ new.pc = "deleting" /\ new.task = t
    BY DEF ReqType
  <1>2. req[r].pc = "idle" /\ HasRow(t) /\ Enter(r, t, new) /\ status' = status
    BY DEF DeleteBegin
  <1> QED
    <2> HIDE DEF new
    <2> QED
      BY <1>1, <1>2, EnterInv

----------------------------------------------------------------------------
(* Requests that write *)

\* Whatever a request ends with, the others stay as they are and it is no longer one
\* that works on a task.
LEMMA EndLeaves ==
  ASSUME Shape, NEW r \in Requests, NEW how \in {"done", "error"}, End(r, how)
  PROVE  /\ req' \in [Requests -> ReqType]
         /\ req'[r].pc = how
         /\ \A q \in Requests \ {r} : req'[q] = req[q]
         /\ \A t : InService(t)' = InService(t) \ {r}
  <1> DEFINE new == [pc |-> how]
  <1>1. new \in ReqType /\ new.pc = how
    BY DEF ReqType
  <1>2. req' = [req EXCEPT ![r] = new]
    BY DEF End
  <1> HIDE DEF new
  <1>3. \A q \in Requests : req'[q] = IF q = r THEN new ELSE req[q]
    BY <1>2 DEF Shape
  <1>4. req' \in [Requests -> ReqType]
    BY <1>1, <1>2 DEF Shape
  <1> QED
    BY <1>1, <1>3, <1>4 DEF InService

\* A request ends and leaves every status alone.
LEMMA EndInv ==
  ASSUME Inv, NEW r \in Requests, NEW how \in {"done", "error"}, End(r, how),
         status' = status, serial' = serial
  PROVE  Inv'
  <1>1. /\ req' \in [Requests -> ReqType]
        /\ req'[r].pc = how
        /\ \A q \in Requests \ {r} : req'[q] = req[q]
        /\ \A t : InService(t)' = InService(t) \ {r}
    BY EndLeaves DEF Inv
  <1>2. Shape'
    BY <1>1 DEF Inv, Shape
  <1>3. Ages'
    BY <1>1 DEF Inv, Ages
  <1>4. Settled'
    BY <1>1 DEF Inv, Settled, HasRow
  <1>5. Alone'
    BY <1>1 DEF Inv, Alone, HasRow
  <1> QED
    BY <1>2, <1>3, <1>4, <1>5 DEF Inv

\* What a writing request may write: a first status, the status it named, or the end.
MayWrite(r, v) ==
  \/ req[r].pc = "creating" /\ v \in TaskStatus
  \/ /\ req[r].pc = "updating" /\ HasRow(req[r].task)
     /\ v = req[r].status /\ v \in TaskStatus
  \/ req[r].pc = "deleting" /\ v = "removed"

\* A write of a status that the check allowed ends its request and keeps Inv.
LEMMA WriteInv ==
  ASSUME Inv, NEW r \in Requests, NEW v, MayWrite(r, v), req[r].task \in Tasks,
         End(r, "done"), status' = [status EXCEPT ![req[r].task] = v], serial' = serial
  PROVE  Inv'
  <1> DEFINE t == req[r].task
  <1>1. /\ req' \in [Requests -> ReqType]
        /\ req'[r].pc = "done"
        /\ \A q \in Requests \ {r} : req'[q] = req[q]
        /\ \A x : InService(x)' = InService(x) \ {r}
    BY EndLeaves DEF Inv
  <1>2. /\ v \in TaskStatus \cup {"removed"} /\ v # "unborn"
        /\ r \in InService(t)
    BY StatusFacts DEF MayWrite, InService
  <1>3. \A x \in Tasks : status'[x] = IF x = t THEN v ELSE status[x]
    BY DEF Inv, Shape
  <1>4. status' \in [Tasks -> Stages]
    BY <1>2 DEF Inv, Shape, Stages
  <1>5. Shape'
    BY <1>1, <1>4 DEF Inv, Shape
  <1>6. \A q \in Requests : req[q].pc \in {"creating", "updating", "deleting"} => req[q].task \in Tasks
    BY DEF Inv, Shape, ReqType
  <1>7. Ages'
    <2>1. ASSUME NEW q \in Requests \ {r}, req[q].pc = "creating"
          PROVE  status'[req[q].task] = "unborn" /\ InService(req[q].task)' = {q}
      <3>1. InService(req[q].task) = {q} /\ status[req[q].task] = "unborn"
        BY <2>1 DEF Inv, Ages
      <3>2. req[q].task # t
        BY <1>2, <3>1
      <3> QED
        BY <1>1, <1>3, <1>6, <2>1, <3>1, <3>2
    <2>2. ASSUME NEW q \in Requests \ {r}, req[q].pc \in {"updating", "deleting"}
          PROVE  status'[req[q].task] # "unborn"
      BY <1>2, <1>3, <1>6, <2>2 DEF Inv, Ages
    <2> QED
      BY <1>1, <2>1, <2>2 DEF Ages
  <1>8. ASSUME NEW q \in Requests \ {r}, req[q].pc = "updating",
               req[q].task = t, v \in TaskStatus
        PROVE  /\ HasRow(t)
               /\ req[q].status = "CANCELLED" <=> v = "CANCELLED"
    <2>1. req[r].pc # "creating"
      BY <1>8 DEF Inv, Ages, InService
    <2>2. req[r].pc = "updating" /\ HasRow(t) /\ v = req[r].status
      BY <1>8, <2>1, StatusFacts DEF MayWrite
    <2> QED
      BY <1>8, <2>2 DEF Inv, Settled
  <1>9. Settled'
    BY <1>1, <1>2, <1>3, <1>6, <1>8 DEF Inv, Settled, HasRow
  <1>10. Alone'
    <2>1. ASSUME serial, NEW q \in Requests \ {r}, req[q].pc = "updating", req[q].task = t
          PROVE  v \notin TaskStatus
      <3>1. req[r].pc # "creating"
        BY <2>1 DEF Inv, Ages, InService
      <3>2. req[r].pc # "updating"
        BY <2>1 DEF Inv, Alone
      <3> QED
        BY <3>1, <3>2, StatusFacts DEF MayWrite
    <2> QED
      BY <1>1, <1>3, <1>6, <2>1 DEF Inv, Alone, HasRow
  <1> QED
    BY <1>5, <1>7, <1>9, <1>10 DEF Inv

\* The insert of a task.
LEMMA CreateInsertInv ==
  ASSUME Inv, NEW r \in Requests, CreateInsert(r)
  PROVE  Inv'
  <1>1. req[r].pc = "creating" /\ serial' = serial
    BY DEF CreateInsert
  <1>2. req[r].status \in TaskStatus /\ req[r].task \in Tasks
    BY <1>1 DEF Inv, Shape, ReqType
  <1>3. \/ End(r, "done") /\ status' = [status EXCEPT ![req[r].task] = req[r].status]
        \/ End(r, "error") /\ status' = status
    BY DEF CreateInsert
  <1> QED
    BY <1>1, <1>2, <1>3, EndInv, WriteInv DEF MayWrite

\* The write of an update, to a row that may be gone by now.
LEMMA UpdateWriteInv ==
  ASSUME Inv, NEW r \in Requests, UpdateWrite(r)
  PROVE  Inv'
  <1>1. req[r].pc = "updating" /\ serial' = serial
    BY DEF UpdateWrite
  <1>2. req[r].status \in TaskStatus /\ req[r].task \in Tasks
    BY <1>1 DEF Inv, Shape, ReqType
  <1>3. CASE HasRow(req[r].task)
    <2>1. End(r, "done") /\ status' = [status EXCEPT ![req[r].task] = req[r].status]
      BY <1>3 DEF UpdateWrite
    <2> QED
      BY <1>1, <1>2, <1>3, <2>1, WriteInv DEF MayWrite
  <1>4. CASE ~HasRow(req[r].task)
    <2>1. status' = status /\ End(r, "error")
      BY <1>4 DEF UpdateWrite
    <2> QED
      BY <1>1, <2>1, EndInv
  <1> QED
    BY <1>3, <1>4

\* The delete of a row that may be gone by now.
LEMMA DeleteWriteInv ==
  ASSUME Inv, NEW r \in Requests, DeleteWrite(r)
  PROVE  Inv'
  <1>1. req[r].pc = "deleting" /\ serial' = serial
    BY DEF DeleteWrite
  <1>2. req[r].task \in Tasks
    BY <1>1 DEF Inv, Shape, ReqType
  <1>3. \/ End(r, "done") /\ status' = [status EXCEPT ![req[r].task] = "removed"]
        \/ End(r, "error") /\ status' = status
    BY DEF DeleteWrite
  <1> QED
    BY <1>1, <1>2, <1>3, EndInv, WriteInv DEF MayWrite

\* Every step preserves Inv.
LEMMA InvNext == Inv /\ [Next]_vars => Inv'
  <1> SUFFICES ASSUME Inv, [Next]_vars PROVE Inv'
    OBVIOUS
  <1>1. ASSUME NEW r \in Requests, NEW u \in Users, NEW t \in Tasks, NEW tm \in Teams,
               NEW s \in TaskStatus, NEW a \in Users \cup {NoUser},
               CreateBegin(r, u, t, tm, s, a)
        PROVE  Inv'
    BY <1>1, CreateBeginInv
  <1>2. ASSUME NEW r \in Requests, CreateInsert(r) \/ UpdateWrite(r) \/ DeleteWrite(r) PROVE Inv'
    BY <1>2, CreateInsertInv, UpdateWriteInv, DeleteWriteInv
  <1>3. ASSUME NEW r \in Requests, NEW u \in Users, NEW t \in Tasks,
               NEW s \in TaskStatus, NEW a \in Users \cup {NoUser, Same},
               UpdateBegin(r, u, t, s, a)
        PROVE  Inv'
    BY <1>3, UpdateBeginInv
  <1>4. ASSUME NEW r \in Requests, NEW u \in Users, NEW t \in Tasks, DeleteBegin(r, u, t) PROVE Inv'
    BY <1>4, DeleteBeginInv
  <1>5. CASE (\E by, u \in Users : DeleteUser(by, u)) \/ UNCHANGED vars
    <2>1. status' = status /\ req' = req /\ serial' = serial
      BY <1>5 DEF DeleteUser, vars
    <2> QED
      BY <2>1 DEF Inv, Shape, Ages, Settled, Alone, InService, HasRow
  <1> QED
    BY <1>1, <1>2, <1>3, <1>4, <1>5 DEF Next

\* Inv holds of every reachable state: what the checks saw is what the writes may rely
\* on.
THEOREM InvHolds == Spec => []Inv
  BY InvInit, InvNext, PTL DEF Spec

----------------------------------------------------------------------------
(* What a step does to the statuses *)

\* Every step leaves all statuses alone or is the write of one request.
LEMMA StatusSteps ==
  ASSUME Inv, [Next]_vars
  PROVE  \/ status' = status
         \/ \E r \in Requests, v \in TaskStatus \cup {"removed"} :
              /\ MayWrite(r, v) /\ req[r].task \in Tasks
              /\ status' = [status EXCEPT ![req[r].task] = v]
  <1> DEFINE Goal == \/ status' = status
                     \/ \E r \in Requests, v \in TaskStatus \cup {"removed"} :
                          /\ MayWrite(r, v) /\ req[r].task \in Tasks
                          /\ status' = [status EXCEPT ![req[r].task] = v]
  <1>1. ASSUME NEW r \in Requests, CreateInsert(r) PROVE Goal
    <2>1. req[r].status \in TaskStatus /\ req[r].task \in Tasks /\ req[r].pc = "creating"
      BY <1>1 DEF CreateInsert, Inv, Shape, ReqType
    <2> QED
      BY <1>1, <2>1 DEF CreateInsert, MayWrite
  <1>2. ASSUME NEW r \in Requests, UpdateWrite(r) PROVE Goal
    <2>1. /\ req[r].status \in TaskStatus
          /\ req[r].task \in Tasks /\ req[r].pc = "updating"
      BY <1>2 DEF UpdateWrite, Inv, Shape, ReqType
    <2>2. CASE HasRow(req[r].task)
      BY <1>2, <2>1, <2>2 DEF UpdateWrite, MayWrite
    <2>3. CASE ~HasRow(req[r].task)
      BY <1>2, <2>3 DEF UpdateWrite
    <2> QED
      BY <2>2, <2>3
  <1>3. ASSUME NEW r \in Requests, DeleteWrite(r) PROVE Goal
    <2>1. req[r].task \in Tasks /\ req[r].pc = "deleting"
      BY <1>3 DEF DeleteWrite, Inv, Shape, ReqType
    <2> QED
      BY <1>3, <2>1 DEF DeleteWrite, MayWrite
  <1>4. \/ \E r \in Requests : CreateInsert(r) \/ UpdateWrite(r) \/ DeleteWrite(r)
        \/ status' = status
    <2>1. ASSUME NEW r \in Requests, NEW u, NEW t, NEW s, NEW a,
                 \/ \E tm : CreateBegin(r, u, t, tm, s, a)
                 \/ UpdateBegin(r, u, t, s, a)
                 \/ DeleteBegin(r, u, t)
          PROVE  status' = status
      BY <2>1 DEF CreateBegin, UpdateBegin, DeleteBegin
    <2>2. ASSUME NEW by, NEW u, DeleteUser(by, u) PROVE status' = status
      BY <2>2 DEF DeleteUser
    <2>3. CASE UNCHANGED vars
      BY <2>3 DEF vars
    <2> QED
      BY <2>1, <2>2, <2>3, Zenon DEF Next
  <1> QED
    BY <1>1, <1>2, <1>3, <1>4

\* A deleted task stays deleted: the writes of updates and deletions that were under
\* way find no row, and nobody creates a task that has been one.
THEOREM DeletedStaysHolds == Spec => DeletedStays
  <1>1. Inv /\ [Next]_vars =>
          \A t \in Tasks : status[t] = "removed" => status'[t] = "removed"
    <2> SUFFICES ASSUME Inv, [Next]_vars, NEW t \in Tasks, status[t] = "removed",
                        status' # status
                 PROVE  status'[t] = "removed"
      OBVIOUS
    <2>1. PICK r \in Requests, v \in TaskStatus \cup {"removed"} :
            /\ MayWrite(r, v) /\ req[r].task \in Tasks
            /\ status' = [status EXCEPT ![req[r].task] = v]
      BY StatusSteps
    <2>2. req[r].task = t => v = "removed"
      BY <2>1, StatusFacts DEF MayWrite, HasRow, Inv, Ages
    <2> QED
      BY <2>1, <2>2 DEF Inv, Shape
  <1> QED
    BY <1>1, InvHolds, PTL DEF Spec, DeletedStays

\* No interleaving of updates cancels a task or takes one out of CANCELLED.
THEOREM CancelledIsFixedHolds == Spec => CancelledIsFixed
  <1>1. Inv /\ [Next]_vars =>
          \A t \in Tasks : HasRow(t) /\ HasRow(t)' =>
            (status[t] = "CANCELLED" <=> status'[t] = "CANCELLED")
    <2> SUFFICES ASSUME Inv, [Next]_vars, NEW t \in Tasks, HasRow(t), HasRow(t)',
                        status' # status
                 PROVE  status[t] = "CANCELLED" <=> status'[t] = "CANCELLED"
      OBVIOUS
    <2>1. PICK r \in Requests, v \in TaskStatus \cup {"removed"} :
            /\ MayWrite(r, v) /\ req[r].task \in Tasks
            /\ status' = [status EXCEPT ![req[r].task] = v]
      BY StatusSteps
    <2>2. CASE req[r].task = t
      <3>1. v = status'[t] /\ v \in TaskStatus /\ status[t] # "unborn"
        BY <2>1, <2>2, StatusFacts DEF HasRow, Inv, Shape
      <3>2. req[r].pc = "updating" /\ v = req[r].status
        BY <2>1, <2>2, <3>1, StatusFacts DEF MayWrite, Inv, Ages
      <3> QED
        BY <2>2, <3>1, <3>2 DEF Inv, Settled
    <2>3. CASE req[r].task # t
      BY <2>1, <2>3 DEF Inv, Shape
    <2> QED
      BY <2>2, <2>3
  <1> QED
    BY <1>1, InvHolds, PTL DEF Spec, CancelledIsFixed

\* TaskLifecycle implements TaskFlow until two updates of a task overlap, whatever is
\* created and deleted beside them: the transition that was checked is the one made.
THEOREM KeepsFlowHolds == Spec => KeepsFlow
  <1>1. Init => Flow!FlowInit
    BY DEF Init, Flow!FlowInit
  <1>2. Inv /\ [Next]_vars => [serial => Flow!FlowNext]_status
    <2> SUFFICES ASSUME Inv, [Next]_vars, serial, status' # status
                 PROVE  Flow!FlowNext
      OBVIOUS
    <2>1. PICK r \in Requests, v \in TaskStatus \cup {"removed"} :
            /\ MayWrite(r, v) /\ req[r].task \in Tasks
            /\ status' = [status EXCEPT ![req[r].task] = v]
      BY StatusSteps
    <2> DEFINE t == req[r].task
    <2>2. t \in Tasks /\ status' = [status EXCEPT ![t] = v] /\ status[t] \in Stages
      BY <2>1 DEF Inv, Shape
    <2>3. status[t] # v
      BY <2>2 DEF Inv, Shape
    <2>4. CASE req[r].pc = "creating"
      <3>1. status[t] = "unborn" /\ v \in Flow!States
        BY <2>1, <2>4 DEF MayWrite, Inv, Ages, Flow!States, TaskStatus
      <3> QED
        BY <2>2, <3>1 DEF Flow!FlowNext, Flow!Move
    <2>5. CASE req[r].pc = "deleting"
      <3>1. v = "removed" /\ status[t] \in Flow!States
        BY <2>1, <2>2, <2>3, <2>5 DEF MayWrite, Inv, Ages, Flow!States, TaskStatus, Stages
      <3> QED
        BY <2>2, <3>1 DEF Flow!FlowNext, Flow!Move
    <2>6. CASE req[r].pc = "updating"
      <3>1. <<status[t], v>> \in Transitions
        BY <2>1, <2>3, <2>6 DEF MayWrite, Inv, Alone
      <3>2. \/ status[t] = "PENDING" /\ v = "IN_PROGRESS"
            \/ status[t] = "IN_PROGRESS" /\ v = "COMPLETED"
        BY <3>1 DEF Transitions
      <3> QED
        BY <2>2, <3>2 DEF Flow!FlowNext, Flow!Move
    <2> QED
      BY <2>1, <2>4, <2>5, <2>6 DEF MayWrite
  <1> QED
    BY <1>1, <1>2, InvHolds, PTL DEF Spec, KeepsFlow
----------------------------------------------------------------------------
(* Who may update *)

Owners ==
  /\ creator \in [Tasks -> Users \cup {NoUser}]
  /\ assignee \in [Tasks -> Users \cup {NoUser}]

\* An update under way is that of the task's creator or assignee, or of a user that
\* is gone.
Entitled ==
  \A r \in Requests :
    req[r].pc = "updating" =>
      req[r].by \in {creator[req[r].task], assignee[req[r].task]} \/ req[r].by \notin users

\* A request enters and leaves the people of every task alone.
LEMMA BeginEntitled ==
  ASSUME Inv, Owners, Entitled, NEW r \in Requests, NEW new \in ReqType,
         req' = [req EXCEPT ![r] = new], UNCHANGED <<users, creator, assignee>>,
         new.pc = "updating" => new.by \in {creator[new.task], assignee[new.task]}
  PROVE  (Owners /\ Entitled)'
  <1>1. \A q \in Requests : req'[q] = IF q = r THEN new ELSE req[q]
    BY DEF Inv, Shape
  <1> QED
    BY <1>1 DEF Owners, Entitled

\* Who an update acts for is the creator or the assignee until it writes, or is gone.
LEMMA EntitledNext == Inv /\ Owners /\ Entitled /\ [Next]_vars => (Owners /\ Entitled)'
  <1> SUFFICES ASSUME Inv, Owners, Entitled, [Next]_vars
               PROVE  (Owners /\ Entitled)'
    OBVIOUS
  <1>1. ASSUME NEW r \in Requests, NEW u \in Users, NEW t \in Tasks, NEW tm \in Teams,
               NEW s \in TaskStatus, NEW a \in Users \cup {NoUser},
               CreateBegin(r, u, t, tm, s, a)
        PROVE  (Owners /\ Entitled)'
    <2> DEFINE new == [pc |-> "creating", by |-> u, task |-> t, team |-> tm,
                       status |-> s, assign |-> a]
    <2>1. req' = [req EXCEPT ![r] = new] /\ UNCHANGED <<users, creator, assignee>>
      BY <1>1 DEF CreateBegin, Enter
    <2>2. new \in ReqType /\ new.pc # "updating"
      BY DEF ReqType
    <2> QED
      BY <2>1, <2>2, BeginEntitled
  <1>2. ASSUME NEW r \in Requests, NEW u \in Users, NEW t \in Tasks,
               NEW s \in TaskStatus, NEW a \in Users \cup {NoUser, Same},
               UpdateBegin(r, u, t, s, a)
        PROVE  (Owners /\ Entitled)'
    <2> DEFINE new == [pc |-> "updating", by |-> u, task |-> t, status |-> s, assign |-> a]
    <2>1. /\ req' = [req EXCEPT ![r] = new] /\ UNCHANGED <<users, creator, assignee>>
          /\ u \in {creator[t], assignee[t]}
      BY <1>2 DEF UpdateBegin, Enter
    <2>2. new \in ReqType /\ new.by = u /\ new.task = t
      BY DEF ReqType
    <2> QED
      BY <2>1, <2>2, BeginEntitled
  <1>3. ASSUME NEW r \in Requests, NEW u \in Users, NEW t \in Tasks, DeleteBegin(r, u, t)
        PROVE  (Owners /\ Entitled)'
    <2> DEFINE new == [pc |-> "deleting", by |-> u, task |-> t]
    <2>1. req' = [req EXCEPT ![r] = new] /\ UNCHANGED <<users, creator, assignee>>
      BY <1>3 DEF DeleteBegin, Enter
    <2>2. new \in ReqType /\ new.pc # "updating"
      BY DEF ReqType
    <2> QED
      BY <2>1, <2>2, BeginEntitled
  <1>4. ASSUME NEW r \in Requests, CreateInsert(r)
        PROVE  (Owners /\ Entitled)'
    <2>1. PICK how \in {"done", "error"} : End(r, how)
      BY <1>4 DEF CreateInsert
    <2>2. req'[r].pc = how /\ \A q \in Requests \ {r} : req'[q] = req[q]
      BY <2>1, EndLeaves DEF Inv
    <2>3. /\ req[r].pc = "creating" /\ status[req[r].task] = "unborn"
          /\ req[r].by \in Users /\ req[r].assign \in Users \cup {NoUser}
          /\ users' = users
      BY <1>4 DEF CreateInsert, Inv, Ages, Shape, ReqType
    <2>4. /\ creator' = creator \/ creator' = [creator EXCEPT ![req[r].task] = req[r].by]
          /\ assignee' = assignee \/ assignee' = [assignee EXCEPT ![req[r].task] = req[r].assign]
      BY <1>4 DEF CreateInsert
    <2>5. \A q \in Requests : req[q].pc = "updating" => req[q].task \in Tasks \ {req[r].task}
      BY <2>3 DEF Inv, Ages, Shape, ReqType
    <2>6. Owners'
      BY <2>3, <2>4 DEF Owners
    <2>7. \A t \in Tasks \ {req[r].task} : creator'[t] = creator[t] /\ assignee'[t] = assignee[t]
      BY <2>4 DEF Owners
    <2> QED
      BY <2>2, <2>3, <2>5, <2>6, <2>7 DEF Entitled
  <1>5. ASSUME NEW r \in Requests, UpdateWrite(r) \/ DeleteWrite(r)
        PROVE  (Owners /\ Entitled)'
    <2>1. (\E how \in {"done", "error"} : End(r, how)) /\ UNCHANGED <<users, creator, assignee>>
      BY <1>5 DEF UpdateWrite, DeleteWrite
    <2>2. req'[r].pc # "updating" /\ \A q \in Requests \ {r} : req'[q] = req[q]
      BY <2>1, EndLeaves DEF Inv
    <2> QED
      BY <2>1, <2>2 DEF Owners, Entitled
  <1>6. ASSUME NEW by \in Users, NEW u \in Users, DeleteUser(by, u)
        PROVE  (Owners /\ Entitled)'
    <2>1. /\ users' = users \ {u} /\ req' = req
          /\ creator' = [t \in Tasks |-> IF creator[t] = u THEN NoUser ELSE creator[t]]
          /\ assignee' = [t \in Tasks |-> IF assignee[t] = u THEN NoUser ELSE assignee[t]]
      BY <1>6 DEF DeleteUser
    <2>2. \A q \in Requests : req[q].pc = "updating" => req[q].task \in Tasks
      BY DEF Inv, Shape, ReqType
    <2> QED
      BY <2>1, <2>2 DEF Owners, Entitled
  <1>7. CASE UNCHANGED vars
    BY <1>7 DEF vars, Owners, Entitled
  <1> QED
    BY <1>1, <1>2, <1>3, <1>4, <1>5, <1>6, <1>7 DEF Next

\* Between the check of an update and its write only deletions of users change who
\* may update: the write is that of the creator, the assignee, or a user that is gone.
THEOREM WriterHasRightHolds == Spec => WriterHasRight
  <1>1. Init => Owners /\ Entitled
    BY DEF Init, Owners, Entitled, Idle
  <1>2. Inv /\ Owners /\ Entitled =>
          \A r \in Requests :
            req[r].pc = "updating" /\ req'[r].pc = "done" =>
              req[r].by \in {creator[req[r].task], assignee[req[r].task]}
              \/ req[r].by \notin users
    BY DEF Entitled
  <1> QED
    BY <1>1, <1>2, EntitledNext, InvHolds, PTL DEF Spec, WriterHasRight

\* Users and teams of the rows.
Places == users \subseteq Users /\ team \in [Tasks -> Teams \cup {NoTeam}]

\* A row's team is the one its creation was asked for; users only go.
LEMMA PlacesNext == Inv /\ Places /\ [Next]_vars => Places'
  <1> SUFFICES ASSUME Inv, Places, [Next]_vars
               PROVE  Places'
    OBVIOUS
  <1>1. ASSUME NEW r \in Requests, CreateInsert(r)
        PROVE  Places'
    <2>1. req[r] \in ReqType /\ req[r].pc = "creating"
      BY <1>1 DEF Inv, Shape, CreateInsert
    <2>2. req[r].team \in Teams
      BY <2>1 DEF ReqType
    <2>3. users' = users /\ (team' = team \/ team' = [team EXCEPT ![req[r].task] = req[r].team])
      BY <1>1 DEF CreateInsert
    <2> QED
      BY <2>2, <2>3 DEF Places
  <1>2. ASSUME NEW by \in Users, NEW u \in Users, DeleteUser(by, u)
        PROVE  Places'
    BY <1>2 DEF Places, DeleteUser
  <1>3. CASE UNCHANGED <<users, team>>
    BY <1>3 DEF Places
  <1>4. ASSUME NEW r \in Requests, NEW u \in Users, NEW t \in Tasks, NEW tm \in Teams,
               NEW s, NEW a,
               CreateBegin(r, u, t, tm, s, a)
        PROVE  UNCHANGED <<users, team>>
    BY <1>4 DEF CreateBegin
  <1>5. ASSUME NEW r \in Requests, NEW u \in Users, NEW t \in Tasks, NEW s, NEW a,
               UpdateBegin(r, u, t, s, a) \/ DeleteBegin(r, u, t)
        PROVE  UNCHANGED <<users, team>>
    BY <1>5 DEF UpdateBegin, DeleteBegin
  <1>6. ASSUME NEW r \in Requests, UpdateWrite(r) \/ DeleteWrite(r)
        PROVE  UNCHANGED <<users, team>>
    BY <1>6 DEF UpdateWrite, DeleteWrite
  <1>7. CASE UNCHANGED vars
    BY <1>3, <1>7 DEF vars
  <1>8. CASE Next
    BY <1>1, <1>2, <1>3, <1>4, <1>5, <1>6, <1>8 DEF Next
  <1> QED
    BY <1>7, <1>8

\* Rows and requests have their types: an update under way names a task and a status, and
\* a row's people and team are those of the organisation, or none.
THEOREM TypeCorrect == Spec => []TypeOK
  <1>1. Init => Owners /\ Entitled /\ Places
    BY DEF Init, Owners, Entitled, Places, Idle
  <1>2. Inv /\ Owners /\ Places => TypeOK
    BY DEF Inv, Shape, Stages, Owners, Places, TypeOK
  <1> QED
    BY <1>1, <1>2, EntitledNext, PlacesNext, InvHolds, PTL DEF Spec
=============================================================================
