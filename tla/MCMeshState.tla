---------------------------- MODULE MCMeshState ----------------------------
(* Two callers in two processes, and one fault.                              *)
EXTENDS MeshState

CONSTANTS c1, c2, p1, p2

MCProcOf == [c \in Callers |-> IF c = c1 THEN p1 ELSE p2]
============================================================================
