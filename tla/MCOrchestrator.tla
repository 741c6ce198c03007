---------------------------- MODULE MCOrchestrator ----------------------------
(* Model values for the Orchestrator runs; each cfg takes the ones it needs. *)
EXTENDS Orchestrator, TLC

CONSTANTS a1, a2, c1, r1, t1, t2, t3, t4, p1, q1, q2, s1

TaskSymmetry == Permutations({t1, t2})
FollowupSymmetry == Permutations({t2, t3, t4})
===============================================================================
