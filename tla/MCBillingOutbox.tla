-------------------------- MODULE MCBillingOutbox ---------------------------
(* One settlement and one release, two pods.                                 *)
EXTENDS BillingOutbox

CONSTANTS s1, x1, p1, p2

MCRows == {s1, x1}
MCPods == {p1, p2}
=============================================================================
