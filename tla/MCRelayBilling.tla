--------------------------- MODULE MCRelayBilling ---------------------------
(* Two requests of one user with one limited token, the first of which may   *)
(* meet any fault, the second none.                                          *)
EXTENDS RelayBilling

CONSTANTS r1, r2

MCRequests == {r1, r2}
=============================================================================
