---------------------------- MODULE MCDailyQuota ----------------------------
(* Two pods and two concurrent requests; any number of days.                 *)
EXTENDS DailyQuota

CONSTANTS p1, p2, r1, r2

MCPods == {p1, p2}
MCRequests == {r1, r2}
=============================================================================
