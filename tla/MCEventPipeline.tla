-------------------------- MODULE MCEventPipeline --------------------------
(***************************************************************************)
(* EventPipeline for TLC: two attempts in every queue.                     *)
(***************************************************************************)
EXTENDS EventPipeline

TwoAttempts == [q \in Queues |-> 2]
=============================================================================
