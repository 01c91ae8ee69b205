---------------------------- MODULE TaskPromise ----------------------------
(***************************************************************************)
(* What the InspectTask controller promises of a task, whatever happens to *)
(* the controller on the way: the task starts once, gets at most one       *)
(* verdict, and none once its deletion has begun; it goes only after that; *)
(* and its plan hears nothing but that it runs, and its verdict.           *)
(***************************************************************************)
CONSTANT Verdicts

VARIABLES
    status,    \* "", "Running" or a verdict
    deleting,  \* its deletion has begun
    present,   \* the task is there
    heard      \* what the plan has heard last

vars == <<status, deleting, present, heard>>

Init == status = "" /\ deleting = FALSE /\ present = TRUE /\ heard = "Pending"

Start ==
    /\ present /\ ~deleting /\ status = "" /\ status' = "Running"
    /\ UNCHANGED <<deleting, present, heard>>

Decide ==
    /\ present /\ ~deleting /\ status = "Running" /\ status' \in Verdicts
    /\ UNCHANGED <<deleting, present, heard>>

Delete ==
    /\ present /\ ~deleting /\ deleting' = TRUE
    /\ present' \in BOOLEAN
    /\ UNCHANGED <<status, heard>>

Go ==
    /\ present /\ deleting /\ present' = FALSE
    /\ UNCHANGED <<status, deleting, heard>>

(* The plan may hear that the task runs before the task itself shows it.   *)
Hear ==
    /\ \/ heard' = "Running"
       \/ status \in Verdicts /\ heard' = status
    /\ UNCHANGED <<status, deleting, present>>

Next == Start \/ Decide \/ Delete \/ Go \/ Hear

Spec == Init /\ [][Next]_vars
=============================================================================
