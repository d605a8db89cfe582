--------------------------- MODULE PatientRunner ---------------------------
(***************************************************************************)
(* What module Pipeline takes for granted of a runner that is not in       *)
(* EarlyExit: it reads its input to the end, whatever becomes of what it   *)
(* yields, and returns only then, unless it is excused: its context was    *)
(* cancelled, or it could not start (in Pipeline one that may not start is *)
(* in EarlyExit).                                                          *)
(***************************************************************************)
EXTENDS Naturals

CONSTANT Total   \* values on its input

VARIABLES
    read,     \* values it has taken
    ended,    \* it saw its input closed
    excused,
    returned

vars == <<read, ended, excused, returned>>

Init == read = 0 /\ ended = FALSE /\ excused = FALSE /\ returned = FALSE

Read ==
    /\ ~returned /\ read < Total
    /\ read' = read + 1
    /\ UNCHANGED <<ended, excused, returned>>

SeeEnd ==
    /\ ~returned /\ ~ended /\ read = Total
    /\ ended' = TRUE
    /\ UNCHANGED <<read, excused, returned>>

Excuse ==
    /\ ~excused
    /\ excused' = TRUE
    /\ returned' \in {returned, TRUE}
    /\ UNCHANGED <<read, ended>>

Return ==
    /\ ~returned
    /\ ended \/ excused
    /\ returned' = TRUE
    /\ UNCHANGED <<read, ended, excused>>

Next == Read \/ SeeEnd \/ Excuse \/ Return

Safety == Init /\ [][Next]_vars
Spec   == Safety /\ WF_vars(Read \/ SeeEnd \/ Return)
=============================================================================
