---------------------------- MODULE MCQuotaStore ----------------------------
(* A charge and a direct credit of one user, on different pods.              *)
EXTENDS QuotaStore

CONSTANTS charge, credit, pod1, pod2

MCDelta == [o \in Ops |-> IF o = charge THEN -2 ELSE 3]
MCPodOf == [o \in Ops |-> IF o = charge THEN pod1 ELSE pod2]
=============================================================================
