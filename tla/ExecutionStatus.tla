--------------------------- MODULE ExecutionStatus ---------------------------
(***************************************************************************)
(* The status vocabulary of an execution row and of a node-execution row,  *)
(* and the transition table every status write of the engine is checked    *)
(* against (state/state-machine.ts).                                       *)
(***************************************************************************)

Status ==
  {"pending", "running", "waiting_for_input", "completed", "failed", "cancelled"}

\* A node row that has not been inserted yet is "absent".
NodeStatus ==
  {"absent", "running", "waiting_for_input", "completed", "failed", "cancelled",
   "skipped"}

Terminal == {"completed", "failed", "cancelled"}

ALLOWED_TRANSITIONS ==
  [s \in Status |->
     CASE s = "pending"           -> {"running", "cancelled"}
       [] s = "running"           -> {"completed", "failed", "cancelled",
                                      "waiting_for_input"}
       [] s = "waiting_for_input" -> {"running", "cancelled", "failed"}
       [] OTHER                   -> {}]

\* The opt-in of the retry-last-turn re-entry: a failed execution may run or park.
RETRY_REENTRY == {"running", "waiting_for_input"}

canTransition(from, to, allowRetryReentry) ==
  \/ to \in ALLOWED_TRANSITIONS[from]
  \/ allowRetryReentry /\ from = "failed" /\ to \in RETRY_REENTRY

\* The statuses a guarded UPDATE accepts in its WHERE clause.
nonTerminalStatuses(allowRetryReentry) ==
  (Status \ Terminal) \cup (IF allowRetryReentry THEN {"failed"} ELSE {})
===============================================================================
