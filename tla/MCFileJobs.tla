----------------------------- MODULE MCFileJobs -----------------------------
(***************************************************************************)
(* FileJobs for TLC: two files of one task.                                *)
(***************************************************************************)
EXTENDS FileJobs, TLC

CONSTANTS t1, f1, f2, k1, k2

OneTask == f1 :> t1 @@ f2 :> t1

\* The two files have different names.
TwoNames == f1 :> k1 @@ f2 :> k2

\* A single file with many requests.
OneFile == f1 :> t1
OneName == f1 :> k1

\* Requests and workers are interchangeable.
RequestsAndWorkers == Permutations(Requests) \cup Permutations(Workers)
=============================================================================
