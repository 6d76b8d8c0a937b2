---------------------------- MODULE WorkflowStates ----------------------------
(***************************************************************************)
(* The workflow state machine of control_plane/workflow.py: the states a   *)
(* stored workflow or task can be in, and the transitions the typed model  *)
(* accepts.  The engine (WorkflowEngine) and the governed task manager     *)
(* (GovernedTasks) both move their records along this table.               *)
(***************************************************************************)

WorkflowState == {"proposed", "validated", "awaiting_approval", "approved",
                  "executing", "succeeded", "failed", "compensated",
                  "cancelled", "dead_letter", "closed"}

ValidTransitions ==
  [ proposed          |-> {"validated", "failed", "cancelled", "dead_letter"},
    validated         |-> {"awaiting_approval", "executing", "failed",
                           "cancelled", "dead_letter"},
    awaiting_approval |-> {"approved", "failed", "cancelled", "dead_letter"},
    approved          |-> {"executing", "failed", "cancelled", "dead_letter"},
    executing         |-> {"succeeded", "failed", "compensated", "cancelled",
                           "dead_letter"},
    succeeded         |-> {"closed"},
    failed            |-> {"compensated", "dead_letter", "closed", "cancelled"},
    compensated       |-> {"closed", "dead_letter"},
    cancelled         |-> {"closed", "dead_letter"},
    dead_letter       |-> {"closed", "compensated"},
    closed            |-> {} ]

\* Workflow.transition raises ValueError exactly when this is false.
IsValidTransition(from, to) ==
  from \in WorkflowState /\ to \in ValidTransitions[from]
===============================================================================
