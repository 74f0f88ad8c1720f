----------------------------- MODULE BullQueue -----------------------------
(***************************************************************************)
(* One Bull queue, as QueueService configures it: a job is added once, a   *)
(* worker of concurrency 1 takes it, a handler that throws puts it back    *)
(* after a back-off until its attempts are spent, and the job of a worker  *)
(* that dies is handed out again (at most MaxStalls times).                *)
(*                                                                         *)
(* Bull itself is a library: this module says what the code under src/     *)
(* relies on.  All jobs of one queue carry one priority, so the wait list  *)
(* is first-in first-out; a delayed retry joins it again at the tail.      *)
(*                                                                         *)
(* The operations are steps of the module that instantiates this one with  *)
(* its handlers, which also states the assumptions on the constants.       *)
(***************************************************************************)
EXTENDS Naturals, Sequences

CONSTANTS
  Jobs,         \* job identities; each is added at most once
  Workers,      \* the processes that run the @Processor class
  MaxAttempts,  \* "attempts" of the add call
  MaxStalls,    \* Bull's maxStalledCount, left at its default of 1
  NoJob         \* an idle worker's job

VARIABLES
  wait,       \* jobs ready to run, oldest first
  delayed,    \* jobs waiting for their back-off to pass
  active,     \* the job each worker runs
  failed,     \* jobs whose attempts are spent
  completed,  \* jobs whose handler returned
  attempts,   \* attemptsMade of each job
  stalls      \* how often each job's worker died

queueVars == <<wait, delayed, active, failed, completed, attempts, stalls>>

Waiting == {wait[i] : i \in 1..Len(wait)}
Running == {active[w] : w \in Workers} \ {NoJob}
Added   == Waiting \cup delayed \cup Running \cup failed \cup completed

\* Added and neither finished nor given up.
Live == Waiting \cup delayed \cup Running

QueueInit ==
  /\ wait = <<>>
  /\ delayed = {}
  /\ active = [w \in Workers |-> NoJob]
  /\ failed = {}
  /\ completed = {}
  /\ attempts = [j \in Jobs |-> 0]
  /\ stalls = [j \in Jobs |-> 0]

\* queue.add(data, options)
Add(j) ==
  /\ j \notin Added
  /\ wait' = Append(wait, j)
  /\ UNCHANGED <<delayed, active, failed, completed, attempts, stalls>>

\* An idle worker takes the oldest ready job.
Take(w) ==
  /\ active[w] = NoJob
  /\ wait # <<>>
  /\ active' = [active EXCEPT ![w] = Head(wait)]
  /\ wait' = Tail(wait)
  /\ UNCHANGED <<delayed, failed, completed, attempts, stalls>>

\* The handler's promise resolved.
Succeed(w) ==
  /\ active[w] # NoJob
  /\ completed' = completed \cup {active[w]}
  /\ active' = [active EXCEPT ![w] = NoJob]
  /\ UNCHANGED <<wait, delayed, failed, attempts, stalls>>

\* Mistaken variants (here and below), which Bull never runs: they show that
\* a property notices a slip in the operation that follows.
Reject_Uncounted(w) ==
  /\ active[w] # NoJob
  /\ delayed' = delayed \cup {active[w]}
  /\ active' = [active EXCEPT ![w] = NoJob]
  /\ UNCHANGED <<wait, failed, completed, attempts, stalls>>

\* The handler's promise was rejected.
Reject(w) ==
  /\ active[w] # NoJob
  /\ LET j == active[w] IN
       /\ attempts' = [attempts EXCEPT ![j] = @ + 1]
       /\ \/ /\ attempts[j] + 1 < MaxAttempts
             /\ delayed' = delayed \cup {j}
             /\ UNCHANGED failed
          \/ /\ attempts[j] + 1 >= MaxAttempts
             /\ failed' = failed \cup {j}
             /\ UNCHANGED delayed
  /\ active' = [active EXCEPT ![w] = NoJob]
  /\ UNCHANGED <<wait, completed, stalls>>

Promote_Copies(j) ==
  /\ j \in delayed
  /\ wait' = Append(wait, j)
  /\ Len(wait) < 2
  /\ UNCHANGED <<delayed, active, failed, completed, attempts, stalls>>

\* The back-off of a delayed job has passed.
Promote(j) ==
  /\ j \in delayed
  /\ delayed' = delayed \ {j}
  /\ wait' = Append(wait, j)
  /\ UNCHANGED <<active, failed, completed, attempts, stalls>>

\* The worker died holding its job and the job's lock ran out: the stalled
\* check hands the job out next, or fails it when it stalled too often.
Stall(w) ==
  /\ active[w] # NoJob
  /\ LET j == active[w] IN
       /\ stalls' = [stalls EXCEPT ![j] = @ + 1]
       /\ \/ /\ stalls[j] < MaxStalls
             /\ wait' = <<j>> \o wait
             /\ UNCHANGED failed
          \/ /\ stalls[j] >= MaxStalls
             /\ failed' = failed \cup {j}
             /\ UNCHANGED wait
  /\ active' = [active EXCEPT ![w] = NoJob]
  /\ UNCHANGED <<delayed, completed, attempts>>

----------------------------------------------------------------------------
QueueTypeOK ==
  /\ wait \in Seq(Jobs)
  /\ delayed \subseteq Jobs
  /\ active \in [Workers -> Jobs \cup {NoJob}]
  /\ failed \subseteq Jobs
  /\ completed \subseteq Jobs
  /\ attempts \in [Jobs -> Nat]
  /\ stalls \in [Jobs -> Nat]

\* A job that was added is in exactly one place: it is never lost, never in the
\* wait list twice, and no two workers hold it, whatever the order of retries,
\* deaths and new jobs.
OneCopy ==
  /\ \A p, q \in 1..Len(wait) : wait[p] = wait[q] => p = q
  /\ \A v, w \in Workers : active[v] = active[w] /\ active[v] # NoJob => v = w
  /\ Waiting \cap (delayed \cup Running \cup failed \cup completed) = {}
  /\ delayed \cap (Running \cup failed \cup completed) = {}
  /\ Running \cap (failed \cup completed) = {}
  /\ failed \cap completed = {}

\* The refinement: where a job is, read off the lists.
StageOf(j) ==
  CASE j \in Waiting   -> "ready"
    [] j \in Running   -> "running"
    [] j \in delayed   -> "delayed"
    [] j \in failed    -> "failed"
    [] j \in completed -> "done"
    [] OTHER           -> "none"

Pool == INSTANCE JobPool WITH
  stage    <- [j \in Jobs |-> StageOf(j)],
  tries    <- attempts,
  deaths   <- stalls,
  Attempts <- [j \in Jobs |-> MaxAttempts]

\* Each operation on the lists is the move of one job and leaves every other job
\* where it was: what listeners and processors may rely on, whatever the order.
ImplementsPool == Pool!PoolSpec
============================================================================
