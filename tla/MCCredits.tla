------------------------------ MODULE MCCredits ------------------------------
(* Three calls for the same order, of each kind, or for two top-ups the id of  *)
(* one of which begins with that of the other: no action reads what an order   *)
(* of another kind left behind, so those need no common behaviour.             *)
EXTENDS Credits

CONSTANTS a1, a2, a3, topup, topup2, transfer, exchange, code1

MCLonger == [o \in {topup, topup2} |-> {topup2} \ {o}]

MCBatches ==
    {[a \in {a1, a2, a3} |-> o] : o \in {topup, transfer, exchange, code1}}
    \cup {[a \in {a1, a2, a3} |-> IF a = a3 THEN topup ELSE topup2]}
=============================================================================
