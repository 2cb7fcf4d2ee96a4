------------------------ MODULE ExecutionStatusMachine ------------------------
(***************************************************************************)
(* What the engine promises about one execution row: it starts pending and *)
(* its status only ever moves along the transition table.                  *)
(***************************************************************************)
EXTENDS ExecutionStatus

CONSTANT AllowRetryReentry

VARIABLE status

Init == status = "pending"

Move(to) == canTransition(status, to, AllowRetryReentry) /\ status' = to

Next == \E to \in Status : Move(to)

Spec == Init /\ [][Next]_status
===============================================================================
