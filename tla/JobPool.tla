------------------------------ MODULE JobPool ------------------------------
(***************************************************************************)
(* What a queue promises those who add jobs and handle them, without the   *)
(* lists it keeps: each job is somewhere between added and settled, may be *)
(* tried a number of times, and no order between jobs is promised.         *)
(***************************************************************************)
EXTENDS Naturals

CONSTANTS
  Jobs,
  Attempts,  \* per job, the "attempts" of its add call
  MaxStalls

VARIABLES
  stage,   \* none, ready, running, delayed, failed or done
  tries,   \* failed attempts of each job
  deaths   \* how often the worker of each job died

poolVars == <<stage, tries, deaths>>

Stages == {"none", "ready", "running", "delayed", "failed", "done"}

Moves(j, from, to) == stage[j] = from /\ stage' = [stage EXCEPT ![j] = to]

PoolInit ==
  /\ stage = [j \in Jobs |-> "none"]
  /\ tries = [j \in Jobs |-> 0]
  /\ deaths = [j \in Jobs |-> 0]

Put(j)    == Moves(j, "none", "ready") /\ UNCHANGED <<tries, deaths>>
Start(j)  == Moves(j, "ready", "running") /\ UNCHANGED <<tries, deaths>>
Due(j)    == Moves(j, "delayed", "ready") /\ UNCHANGED <<tries, deaths>>
Finish(j) == Moves(j, "running", "done") /\ UNCHANGED <<tries, deaths>>

\* Mistaken variant: it shows that a property notices a slip.
Fail_Uncounted(j) == Moves(j, "running", "delayed") /\ UNCHANGED <<tries, deaths>>

\* An attempt failed: another one later, or none.
Fail(j) ==
  /\ tries' = [tries EXCEPT ![j] = @ + 1]
  /\ \/ tries[j] + 1 < Attempts[j] /\ Moves(j, "running", "delayed")
     \/ tries[j] + 1 >= Attempts[j] /\ Moves(j, "running", "failed")
  /\ UNCHANGED deaths

\* The worker died: the job is ready again, or given up.
Die(j) ==
  /\ deaths' = [deaths EXCEPT ![j] = @ + 1]
  /\ \/ deaths[j] < MaxStalls /\ Moves(j, "running", "ready")
     \/ deaths[j] >= MaxStalls /\ Moves(j, "running", "failed")
  /\ UNCHANGED tries

PoolNext ==
  \E j \in Jobs : Put(j) \/ Start(j) \/ Finish(j) \/ Fail(j) \/ Due(j) \/ Die(j)

PoolSpec == PoolInit /\ [][PoolNext]_poolVars

Settled(j) == stage[j] \in {"failed", "done"}
=============================================================================
