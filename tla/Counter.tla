------------------------------- MODULE Counter -------------------------------
(***************************************************************************)
(* What the quota of a user or of a token promises its callers: an         *)
(* acknowledged change counts exactly once, and only a fault (which may    *)
(* take acknowledged changes back) or an edit of the row (which overwrites *)
(* them) makes the value anything else than the sum of the changes.        *)
(* Nothing is promised about a row that has been deleted.                  *)
(***************************************************************************)
EXTENDS Integers, FiniteSetsExt

CONSTANTS Ops, Delta, Start

VARIABLES value, taken, faults, edits, gone

Total(S) == MapThenSumSet(LAMBDA o : Delta[o], S)

Init == value = Start /\ taken = {} /\ faults = 0 /\ edits = 0 /\ gone = FALSE

Take(o) ==
    /\ o \notin taken
    /\ taken' = taken \cup {o}
    /\ value' = value + Delta[o]
    /\ UNCHANGED <<faults, edits, gone>>

Fault ==
    /\ faults' = faults + 1
    /\ \E S \in SUBSET taken, T \in SUBSET (Ops \ taken) :
          taken' = taken \cup T /\ value' = value + Total(T) - Total(S)
    /\ UNCHANGED <<edits, gone>>

Edit ==
    /\ edits' = edits + 1
    /\ value' \in Int
    /\ UNCHANGED <<taken, faults, gone>>

Delete == gone' = TRUE /\ UNCHANGED <<value, taken, faults, edits>>

Deleted == gone /\ gone' /\ value' \in Int

Next == (\E o \in Ops : Take(o)) \/ Fault \/ Edit \/ Delete \/ Deleted

Spec == Init /\ [][Next]_<<value, taken, faults, edits, gone>>
=============================================================================
